---- MODULE Spec2Model ----
(***************************************************************************)
(* Model of validibot-shared: the envelope records exchanged between the    *)
(* orchestrator and the validator containers, their family extensions      *)
(* (EnergyPlus, FMI) and the FMI probe result.                              *)
(*                                                                         *)
(* The library is a set of declarative record classes.  Each class is      *)
(* modelled by its field table (type, required or default, constraints)    *)
(* and its unknown-field policy, exactly as declared in the source; the     *)
(* operators ValModel / ValType apply a class to a raw document the way     *)
(* construction and decoding of such a class do.  The state machine is a   *)
(* caller: it holds a raw document, edits it, decodes it under a class,     *)
(* re-decodes the serialised result under the base class, and calls the     *)
(* probe result factories.                                                  *)
(***************************************************************************)
EXTENDS Integers, Sequences, FiniteSets, TLC

VARIABLES cls,      \* the class the document is constructed / decoded as
          doc,      \* the raw document (or the factory call's arguments)
          hist,     \* the edits applied to the sample document so far
          pc,       \* "edit" | "decoded" | "rebased" | "success" | "failure" | "built" | "mutated" | "reloaded"
          result,   \* outcome of the last construction under cls
          rebased,  \* outcome of decoding Serialize(result.val) under the base class
          jobs,     \* launched jobs: [run_id, context], context a decoded ExecutionContext
          wire,     \* serialised ValidationCallback payloads posted so far
          log       \* the receiver's deliveries, in order: [run_id, callback_id, processed]

vars == <<cls, doc, hist, pc, result, rebased, jobs, wire, log>>

\* the state of the callback exchange
cbvars == <<jobs, wire, log>>

(***************************************************************************)
(* Raw values: JSON-like documents and Python call-site values.            *)
(* Numbers with a fractional part are counted in hundredths (VFloat(250)   *)
(* is 2.5).  VInst is an already constructed instance of a record class,   *)
(* VEnum a member of an enumeration, VUrl a parsed URL, VTime a parsed      *)
(* timestamp, VPath a filesystem path object.                               *)
(***************************************************************************)
VNull == [t |-> "null"]

VStr(s) == [t |-> "str", s |-> s]

VInt(i) == [t |-> "int", i |-> i]

VFloat(h) == [t |-> "float", h |-> h]

\* the float value positive infinity (float("inf")), which has no hundredths
VInf == [t |-> "inf"]

VBool(b) == [t |-> "bool", b |-> b]

VObj(f) == [t |-> "obj", f |-> f]

VList(l) == [t |-> "list", l |-> l]

VInst(c, f) == [t |-> "inst", c |-> c, f |-> f]

VEnum(c, s) == [t |-> "enum", c |-> c, s |-> s]

VUrl(s) == [t |-> "url", u |-> s]

VTime(n) == [t |-> "time", n |-> n]

VPath(s) == [t |-> "path", p |-> s]

NoFields == [k \in {} |-> VNull]

IsNull(v) == v.t = "null"

(***************************************************************************)
(* Field types and field declarations.                                     *)
(***************************************************************************)
TStr == [k |-> "str"]

TBool == [k |-> "bool"]

\* ge / le: sets holding the inclusive bounds declared on the field (empty: none)
TInt(ge, le) == [k |-> "int", ge |-> ge, le |-> le]

\* ge / gt: sets holding the bounds declared on the field, in whole units
TFloat(ge, gt) == [k |-> "float", ge |-> ge, gt |-> gt]

TEnum(c, vals) == [k |-> "enum", c |-> c, vals |-> vals]

TLit(vals) == [k |-> "literal", vals |-> vals]

TModel(c) == [k |-> "model", c |-> c]

TList(of) == [k |-> "list", of |-> of]

TOpt(of) == [k |-> "opt", of |-> of]

TDictAny == [k |-> "dict"]

TNumStr == [k |-> "numstr"]

TUrl == [k |-> "url"]

TTime == [k |-> "time"]

TPath == [k |-> "path"]

\* a field with no default: omitting it is an error
Req(ty) == [type |-> ty, req |-> TRUE, def |-> VNull, factory |-> ""]

\* a field with a default value
Dflt(ty, d) == [type |-> ty, req |-> FALSE, def |-> d, factory |-> ""]

\* a field whose default is a no-argument construction of class c
DfltFactory(ty, c) == [type |-> ty, req |-> FALSE, def |-> VNull, factory |-> c]

(***************************************************************************)
(* validations/envelopes.py: enumerations.                                 *)
(***************************************************************************)
Severity == {"INFO", "WARNING", "ERROR"}

ValidatorType ==
    {"BASIC", "JSON_SCHEMA", "XML_SCHEMA", "ENERGYPLUS", "FMU", "CUSTOM_VALIDATOR", "AI_ASSIST"}

SupportedMimeType ==
    {"application/xml", "text/xml", "application/vnd.energyplus.idf",
     "application/vnd.energyplus.epjson", "application/vnd.energyplus.epw",
     "application/vnd.fmi.fmu"}

ValidationStatus_without_failures == {"success", "cancelled"}

ValidationStatus_with_error ==
    {"success", "failed_validation", "failed_runtime", "cancelled", "error"}

ValidationStatus == {"success", "failed_validation", "failed_runtime", "cancelled"}

(***************************************************************************)
(* validations/envelopes.py: record classes.  extra is the class's         *)
(* unknown-field policy: "forbid" where model_config says so, "ignore"     *)
(* (the framework's default) where the class declares none.                *)
(***************************************************************************)
\* InputFileItem without its model_config line
InputFileItem_no_model_config ==
    [extra |-> "ignore",
     fields |-> [name      |-> Req(TStr),
                 mime_type |-> Req(TEnum("SupportedMimeType", SupportedMimeType)),
                 role      |-> Dflt(TOpt(TStr), VNull),
                 uri       |-> Req(TStr)]]

InputFileItem ==
    [extra |-> "forbid",
     fields |-> [name      |-> Req(TStr),
                 mime_type |-> Req(TEnum("SupportedMimeType", SupportedMimeType)),
                 role      |-> Dflt(TOpt(TStr), VNull),
                 uri       |-> Req(TStr)]]

ResourceFileItem ==
    [extra |-> "forbid",
     fields |-> [id   |-> Req(TStr),
                 type |-> Req(TStr),
                 uri  |-> Req(TStr)]]

ValidatorInfo ==
    [extra |-> "forbid",
     fields |-> [id      |-> Req(TStr),
                 type    |-> Req(TEnum("ValidatorType", ValidatorType)),
                 version |-> Req(TStr)]]

OrganizationInfo ==
    [extra |-> "forbid",
     fields |-> [id   |-> Req(TStr),
                 name |-> Req(TStr)]]

WorkflowInfo ==
    [extra |-> "forbid",
     fields |-> [id        |-> Req(TStr),
                 step_id   |-> Req(TStr),
                 step_name |-> Dflt(TOpt(TStr), VNull)]]

ExecutionContext_short_timeout ==
    [extra |-> "forbid",
     fields |-> [callback_id          |-> Dflt(TOpt(TStr), VNull),
                 callback_url         |-> Dflt(TOpt(TUrl), VNull),
                 skip_callback        |-> Dflt(TBool, VBool(FALSE)),
                 execution_bundle_uri |-> Req(TStr),
                 timeout_seconds      |-> Dflt(TInt({}, {}), VInt(60)),
                 tags                 |-> Dflt(TList(TStr), VList(<<>>))]]

ExecutionContext ==
    [extra |-> "forbid",
     fields |-> [callback_id          |-> Dflt(TOpt(TStr), VNull),
                 callback_url         |-> Dflt(TOpt(TUrl), VNull),
                 skip_callback        |-> Dflt(TBool, VBool(FALSE)),
                 execution_bundle_uri |-> Req(TStr),
                 timeout_seconds      |-> Dflt(TInt({}, {}), VInt(3600)),
                 tags                 |-> Dflt(TList(TStr), VList(<<>>))]]

ValidationInputEnvelope_either_version ==
    [extra |-> "forbid",
     fields |-> [schema_version |-> Dflt(TLit({"validibot.input.v1", "validibot.output.v1"}),
                                         VStr("validibot.input.v1")),
                 run_id         |-> Req(TStr),
                 validator      |-> Req(TModel("ValidatorInfo")),
                 org            |-> Req(TModel("OrganizationInfo")),
                 workflow       |-> Req(TModel("WorkflowInfo")),
                 input_files    |-> Dflt(TList(TModel("InputFileItem")), VList(<<>>)),
                 resource_files |-> Dflt(TList(TModel("ResourceFileItem")), VList(<<>>)),
                 inputs         |-> Dflt(TDictAny, VObj(NoFields)),
                 context        |-> Req(TModel("ExecutionContext"))]]

ValidationInputEnvelope ==
    [extra |-> "forbid",
     fields |-> [schema_version |-> Dflt(TLit({"validibot.input.v1"}), VStr("validibot.input.v1")),
                 run_id         |-> Req(TStr),
                 validator      |-> Req(TModel("ValidatorInfo")),
                 org            |-> Req(TModel("OrganizationInfo")),
                 workflow       |-> Req(TModel("WorkflowInfo")),
                 input_files    |-> Dflt(TList(TModel("InputFileItem")), VList(<<>>)),
                 resource_files |-> Dflt(TList(TModel("ResourceFileItem")), VList(<<>>)),
                 inputs         |-> Dflt(TDictAny, VObj(NoFields)),
                 context        |-> Req(TModel("ExecutionContext"))]]

MessageLocation ==
    [extra |-> "forbid",
     fields |-> [file_role |-> Dflt(TOpt(TStr), VNull),
                 line      |-> Dflt(TOpt(TInt({}, {})), VNull),
                 column    |-> Dflt(TOpt(TInt({}, {})), VNull),
                 path      |-> Dflt(TOpt(TStr), VNull)]]

ValidationMessage ==
    [extra |-> "forbid",
     fields |-> [severity |-> Req(TEnum("Severity", Severity)),
                 code     |-> Dflt(TOpt(TStr), VNull),
                 text     |-> Req(TStr),
                 location |-> Dflt(TOpt(TModel("MessageLocation")), VNull),
                 tags     |-> Dflt(TList(TStr), VList(<<>>))]]

ValidationMetric ==
    [extra |-> "forbid",
     fields |-> [name     |-> Req(TStr),
                 value    |-> Req(TNumStr),
                 unit     |-> Dflt(TOpt(TStr), VNull),
                 category |-> Dflt(TOpt(TStr), VNull),
                 tags     |-> Dflt(TList(TStr), VList(<<>>))]]

ValidationArtifact ==
    [extra |-> "forbid",
     fields |-> [name       |-> Req(TStr),
                 type       |-> Req(TStr),
                 mime_type  |-> Dflt(TOpt(TStr), VNull),
                 uri        |-> Req(TStr),
                 size_bytes |-> Dflt(TOpt(TInt({}, {})), VNull)]]

RawOutputs ==
    [extra |-> "forbid",
     fields |-> [format       |-> Req(TLit({"directory", "archive"})),
                 manifest_uri |-> Req(TStr)]]

ValidationTiming_started_required ==
    [extra |-> "forbid",
     fields |-> [queued_at   |-> Dflt(TOpt(TTime), VNull),
                 started_at  |-> Req(TTime),
                 finished_at |-> Dflt(TOpt(TTime), VNull)]]

ValidationTiming ==
    [extra |-> "forbid",
     fields |-> [queued_at   |-> Dflt(TOpt(TTime), VNull),
                 started_at  |-> Dflt(TOpt(TTime), VNull),
                 finished_at |-> Dflt(TOpt(TTime), VNull)]]

ValidationOutputEnvelope ==
    [extra |-> "forbid",
     fields |-> [schema_version |-> Dflt(TLit({"validibot.output.v1"}), VStr("validibot.output.v1")),
                 run_id         |-> Req(TStr),
                 validator      |-> Req(TModel("ValidatorInfo")),
                 status         |-> Req(TEnum("ValidationStatus", ValidationStatus)),
                 timing         |-> Req(TModel("ValidationTiming")),
                 messages       |-> Dflt(TList(TModel("ValidationMessage")), VList(<<>>)),
                 metrics        |-> Dflt(TList(TModel("ValidationMetric")), VList(<<>>)),
                 artifacts      |-> Dflt(TList(TModel("ValidationArtifact")), VList(<<>>)),
                 raw_outputs    |-> Dflt(TOpt(TModel("RawOutputs")), VNull),
                 outputs        |-> Dflt(TOpt(TDictAny), VNull)]]

ValidationCallback ==
    [extra |-> "forbid",
     fields |-> [run_id      |-> Req(TStr),
                 callback_id |-> Dflt(TOpt(TStr), VNull),
                 status      |-> Req(TEnum("ValidationStatus", ValidationStatus)),
                 result_uri  |-> Req(TStr)]]

(***************************************************************************)
(* A subclass that re-declares one field of its parent: every other field  *)
(* and the unknown-field policy are inherited.                             *)
(***************************************************************************)
Override(base, name, decl) ==
    [extra  |-> base.extra,
     fields |-> [f \in DOMAIN base.fields |-> IF f = name THEN decl ELSE base.fields[f]]]

(***************************************************************************)
(* fmi/models.py                                                           *)
(***************************************************************************)
FMIVariableMeta ==
    [extra |-> "forbid",
     fields |-> [name            |-> Req(TStr),
                 causality       |-> Req(TStr),
                 variability     |-> Dflt(TOpt(TStr), VNull),
                 value_reference |-> Dflt(TInt({}, {}), VInt(0)),
                 value_type      |-> Req(TStr),
                 unit            |-> Dflt(TOpt(TStr), VNull)]]

FMIProbeResult ==
    [extra |-> "forbid",
     fields |-> [status            |-> Dflt(TLit({"success", "error"}), VStr("error")),
                 variables         |-> Dflt(TList(TModel("FMIVariableMeta")), VList(<<>>)),
                 errors            |-> Dflt(TList(TStr), VList(<<>>)),
                 messages          |-> Dflt(TList(TStr), VList(<<>>)),
                 execution_seconds |-> Dflt(TOpt(TFloat({}, {})), VNull)]]

(***************************************************************************)
(* fmi/envelopes.py: these three classes declare no model_config.          *)
(***************************************************************************)
FMISimulationConfig_stop_after_one ==
    [extra |-> "ignore",
     fields |-> [start_time |-> Dflt(TFloat({0}, {}), VFloat(0)),
                 stop_time  |-> Dflt(TFloat({}, {1}), VFloat(100)),
                 step_size  |-> Dflt(TFloat({}, {0}), VFloat(1)),
                 tolerance  |-> Dflt(TOpt(TFloat({}, {0})), VNull)]]

FMISimulationConfig ==
    [extra |-> "ignore",
     fields |-> [start_time |-> Dflt(TFloat({0}, {}), VFloat(0)),
                 stop_time  |-> Dflt(TFloat({}, {0}), VFloat(100)),
                 step_size  |-> Dflt(TFloat({}, {0}), VFloat(1)),
                 tolerance  |-> Dflt(TOpt(TFloat({}, {0})), VNull)]]

FMIInputs ==
    [extra |-> "ignore",
     fields |-> [input_values     |-> Dflt(TDictAny, VObj(NoFields)),
                 simulation       |-> DfltFactory(TModel("FMISimulationConfig"), "FMISimulationConfig"),
                 output_variables |-> Dflt(TList(TStr), VList(<<>>))]]

FMIOutputs ==
    [extra |-> "ignore",
     fields |-> [output_values           |-> Dflt(TDictAny, VObj(NoFields)),
                 fmu_guid                |-> Dflt(TOpt(TStr), VNull),
                 fmi_version             |-> Dflt(TOpt(TStr), VNull),
                 model_name              |-> Dflt(TOpt(TStr), VNull),
                 execution_seconds       |-> Req(TFloat({0}, {})),
                 simulation_time_reached |-> Req(TFloat({0}, {})),
                 fmu_log                 |-> Dflt(TOpt(TStr), VNull)]]

\* an FMI input envelope that also declares a top-level field of its own
FMIInputEnvelope_adds_field ==
    [extra  |-> ValidationInputEnvelope.extra,
     fields |-> ("fmu_options" :> Dflt(TOpt(TStr), VNull))
                @@ Override(ValidationInputEnvelope, "inputs", Req(TModel("FMIInputs"))).fields]

FMIInputEnvelope ==
    Override(ValidationInputEnvelope, "inputs", Req(TModel("FMIInputs")))

FMIOutputEnvelope ==
    Override(ValidationOutputEnvelope, "outputs", Dflt(TOpt(TModel("FMIOutputs")), VNull))

(***************************************************************************)
(* energyplus/models.py                                                    *)
(***************************************************************************)
InvocationMode_with_another == {"python_api", "cli", "invalid-mode"}

InvocationMode == {"python_api", "cli"}

\* NonNegFloat without its ge=0
NonNegFloat_unbounded == TFloat({}, {})

NonNegFloat == TFloat({0}, {})

NonNegInt == TInt({0}, {})

EnergyPlusSimulationOutputs ==
    [extra |-> "forbid",
     fields |-> [eplusout_sql |-> Dflt(TOpt(TPath), VNull),
                 eplusout_err |-> Dflt(TOpt(TPath), VNull),
                 eplusout_csv |-> Dflt(TOpt(TPath), VNull),
                 eplusout_eso |-> Dflt(TOpt(TPath), VNull)]]

EnergyPlusSimulationMetrics ==
    [extra |-> "forbid",
     fields |-> [site_electricity_kwh      |-> Dflt(TOpt(NonNegFloat), VNull),
                 site_natural_gas_kwh      |-> Dflt(TOpt(NonNegFloat), VNull),
                 site_district_cooling_kwh |-> Dflt(TOpt(NonNegFloat), VNull),
                 site_district_heating_kwh |-> Dflt(TOpt(NonNegFloat), VNull),
                 site_eui_kwh_m2           |-> Dflt(TOpt(NonNegFloat), VNull),
                 heating_energy_kwh        |-> Dflt(TOpt(NonNegFloat), VNull),
                 cooling_energy_kwh        |-> Dflt(TOpt(NonNegFloat), VNull),
                 interior_lighting_kwh     |-> Dflt(TOpt(NonNegFloat), VNull),
                 fans_energy_kwh           |-> Dflt(TOpt(NonNegFloat), VNull),
                 pumps_energy_kwh          |-> Dflt(TOpt(NonNegFloat), VNull),
                 water_systems_kwh         |-> Dflt(TOpt(NonNegFloat), VNull),
                 unmet_heating_hours       |-> Dflt(TOpt(NonNegFloat), VNull),
                 unmet_cooling_hours       |-> Dflt(TOpt(NonNegFloat), VNull),
                 peak_electric_demand_w    |-> Dflt(TOpt(NonNegFloat), VNull),
                 floor_area_m2             |-> Dflt(TOpt(NonNegFloat), VNull),
                 zone_count                |-> Dflt(TOpt(NonNegInt), VNull)]]

EnergyPlusSimulationLogs ==
    [extra |-> "forbid",
     fields |-> [stdout_tail |-> Dflt(TOpt(TStr), VNull),
                 stderr_tail |-> Dflt(TOpt(TStr), VNull),
                 err_tail    |-> Dflt(TOpt(TStr), VNull)]]

(***************************************************************************)
(* energyplus/envelopes.py                                                 *)
(***************************************************************************)
\* EnergyPlusInputs without its model_config line
EnergyPlusInputs_no_model_config ==
    [extra |-> "ignore",
     fields |-> [timestep_per_hour |-> Dflt(TInt({1}, {60}), VInt(4)),
                 run_period_days   |-> Dflt(TOpt(TInt({}, {})), VNull),
                 invocation_mode   |-> Dflt(TLit(InvocationMode), VStr("cli"))]]

\* EnergyPlusInputs whose timestep_per_hour may be zero
EnergyPlusInputs_timestep_from_zero ==
    [extra |-> "forbid",
     fields |-> [timestep_per_hour |-> Dflt(TInt({0}, {60}), VInt(4)),
                 run_period_days   |-> Dflt(TOpt(TInt({}, {})), VNull),
                 invocation_mode   |-> Dflt(TLit(InvocationMode), VStr("cli"))]]

EnergyPlusInputs ==
    [extra |-> "forbid",
     fields |-> [timestep_per_hour |-> Dflt(TInt({1}, {60}), VInt(4)),
                 run_period_days   |-> Dflt(TOpt(TInt({}, {})), VNull),
                 invocation_mode   |-> Dflt(TLit(InvocationMode), VStr("cli"))]]

EnergyPlusOutputs ==
    [extra |-> "forbid",
     fields |-> [outputs               |-> DfltFactory(TModel("EnergyPlusSimulationOutputs"),
                                                       "EnergyPlusSimulationOutputs"),
                 metrics               |-> DfltFactory(TModel("EnergyPlusSimulationMetrics"),
                                                       "EnergyPlusSimulationMetrics"),
                 logs                  |-> Dflt(TOpt(TModel("EnergyPlusSimulationLogs")), VNull),
                 energyplus_returncode |-> Req(TInt({}, {})),
                 execution_seconds     |-> Req(TFloat({0}, {})),
                 invocation_mode       |-> Req(TLit(InvocationMode))]]

EnergyPlusInputEnvelope ==
    Override(ValidationInputEnvelope, "inputs", Req(TModel("EnergyPlusInputs")))

EnergyPlusOutputEnvelope ==
    Override(ValidationOutputEnvelope, "outputs", Req(TModel("EnergyPlusOutputs")))

(***************************************************************************)
(* The classes by name, and the subclass relation.                         *)
(***************************************************************************)
Model(c) ==
    CASE c = "InputFileItem"               -> InputFileItem
      [] c = "ResourceFileItem"            -> ResourceFileItem
      [] c = "ValidatorInfo"               -> ValidatorInfo
      [] c = "OrganizationInfo"            -> OrganizationInfo
      [] c = "WorkflowInfo"                -> WorkflowInfo
      [] c = "ExecutionContext"            -> ExecutionContext
      [] c = "ValidationInputEnvelope"     -> ValidationInputEnvelope
      [] c = "MessageLocation"             -> MessageLocation
      [] c = "ValidationMessage"           -> ValidationMessage
      [] c = "ValidationMetric"            -> ValidationMetric
      [] c = "ValidationArtifact"          -> ValidationArtifact
      [] c = "RawOutputs"                  -> RawOutputs
      [] c = "ValidationTiming"            -> ValidationTiming
      [] c = "ValidationOutputEnvelope"    -> ValidationOutputEnvelope
      [] c = "ValidationCallback"          -> ValidationCallback
      [] c = "FMIVariableMeta"             -> FMIVariableMeta
      [] c = "FMIProbeResult"              -> FMIProbeResult
      [] c = "FMISimulationConfig"         -> FMISimulationConfig
      [] c = "FMIInputs"                   -> FMIInputs
      [] c = "FMIOutputs"                  -> FMIOutputs
      [] c = "FMIInputEnvelope"            -> FMIInputEnvelope
      [] c = "FMIOutputEnvelope"           -> FMIOutputEnvelope
      [] c = "EnergyPlusSimulationOutputs" -> EnergyPlusSimulationOutputs
      [] c = "EnergyPlusSimulationMetrics" -> EnergyPlusSimulationMetrics
      [] c = "EnergyPlusSimulationLogs"    -> EnergyPlusSimulationLogs
      [] c = "EnergyPlusInputs"            -> EnergyPlusInputs
      [] c = "EnergyPlusOutputs"           -> EnergyPlusOutputs
      [] c = "EnergyPlusInputEnvelope"     -> EnergyPlusInputEnvelope
      [] c = "EnergyPlusOutputEnvelope"    -> EnergyPlusOutputEnvelope

BaseRecords ==
    {"InputFileItem", "ResourceFileItem", "ValidatorInfo", "OrganizationInfo", "WorkflowInfo",
     "ExecutionContext", "MessageLocation", "ValidationMessage", "ValidationMetric",
     "ValidationArtifact", "RawOutputs", "ValidationTiming", "ValidationInputEnvelope",
     "ValidationOutputEnvelope", "ValidationCallback"}

FMIRecords ==
    {"FMIVariableMeta", "FMIProbeResult", "FMISimulationConfig", "FMIInputs", "FMIOutputs",
     "FMIInputEnvelope", "FMIOutputEnvelope"}

EnergyPlusRecords ==
    {"EnergyPlusSimulationOutputs", "EnergyPlusSimulationMetrics", "EnergyPlusSimulationLogs",
     "EnergyPlusInputs", "EnergyPlusOutputs", "EnergyPlusInputEnvelope",
     "EnergyPlusOutputEnvelope"}

Classes == BaseRecords \cup FMIRecords \cup EnergyPlusRecords

FamilyInputEnvelopes == {"EnergyPlusInputEnvelope", "FMIInputEnvelope"}

FamilyOutputEnvelopes == {"EnergyPlusOutputEnvelope", "FMIOutputEnvelope"}

FamilyEnvelopes == FamilyInputEnvelopes \cup FamilyOutputEnvelopes

\* the parent class of a family envelope
BaseOf(c) ==
    IF c \in FamilyInputEnvelopes THEN "ValidationInputEnvelope" ELSE "ValidationOutputEnvelope"

IsSubclass(c, d) == c = d \/ (c \in FamilyEnvelopes /\ BaseOf(c) = d)

(***************************************************************************)
(* String syntaxes.  Strings are opaque here, so parsing is a table over   *)
(* the strings the documents below draw from.                              *)
(***************************************************************************)
\* strings that read as an integer
IntLexicon == ("0" :> 0) @@ ("1" :> 1) @@ ("4" :> 4) @@ ("-1" :> -1) @@ ("61" :> 61)

\* strings that read as a boolean
BoolLexicon == ("true" :> TRUE) @@ ("false" :> FALSE)

\* strings that are http(s) URLs, with their normalised form
HttpUrlLexicon ==
    ("https://example.com/callback" :> "https://example.com/callback")
    @@ ("https://example.com" :> "https://example.com/")
    @@ ("https://example.com/" :> "https://example.com/")
    @@ ("http://example.com/callback" :> "http://example.com/callback")

\* ISO 8601 timestamps, as seconds after 2025-01-01T00:00:00Z
TimeLexicon ==
    ("2025-01-01T00:00:00Z" :> 0) @@ ("2025-01-01T00:00:10Z" :> 10)
    @@ ("2025-01-01T00:00:20Z" :> 20)

TimeText(n) == CHOOSE s \in DOMAIN TimeLexicon : TimeLexicon[s] = n

(***************************************************************************)
(* Construction / decoding of a value of a declared type.  Each operator   *)
(* yields [errs, val]: errs is the set of <<field path, reason>> found     *)
(* below path, val the constructed value (meaningful when errs is empty).  *)
(***************************************************************************)
Good(v) == [errs |-> {}, val |-> v]

Bad(path, reason) == [errs |-> {<<path, reason>>}, val |-> VNull]

\* list positions as path components
Idx(i) == CASE i = 1 -> "0" [] i = 2 -> "1" [] i = 3 -> "2" [] OTHER -> "n"

\* the integer an input stands for under lax conversion, as a set (empty: none)
AsInt(v) ==
    CASE v.t = "int" -> {v.i}
      [] v.t = "bool" -> {IF v.b THEN 1 ELSE 0}
      [] v.t = "float" -> IF v.h % 100 = 0 THEN {v.h \div 100} ELSE {}
      [] v.t = "str" -> IF v.s \in DOMAIN IntLexicon THEN {IntLexicon[v.s]} ELSE {}
      [] OTHER -> {}

\* the number (in hundredths) an input stands for under lax conversion
AsFloat(v) ==
    CASE v.t = "float" -> {v.h}
      [] v.t = "int" -> {100 * v.i}
      [] v.t = "bool" -> {IF v.b THEN 100 ELSE 0}
      [] v.t = "str" -> IF v.s \in DOMAIN IntLexicon THEN {100 * IntLexicon[v.s]} ELSE {}
      [] OTHER -> {}

AsBool(v) ==
    CASE v.t = "bool" -> {v.b}
      [] v.t = "int" -> IF v.i \in {0, 1} THEN {v.i = 1} ELSE {}
      [] v.t = "str" -> IF v.s \in DOMAIN BoolLexicon THEN {BoolLexicon[v.s]} ELSE {}
      [] OTHER -> {}

ValInt(ty, v, path) ==
    LET n == AsInt(v) IN
    IF n = {} THEN Bad(path, "int_type")
    ELSE LET i == CHOOSE x \in n : TRUE IN
         IF \E b \in ty.ge : i < b THEN Bad(path, "greater_than_equal")
         ELSE IF \E b \in ty.le : i > b THEN Bad(path, "less_than_equal")
         ELSE Good(VInt(i))

ValFloat(ty, v, path) ==
    LET n == AsFloat(v) IN
    IF v.t = "inf" THEN Good(v)
    ELSE IF n = {} THEN Bad(path, "float_type")
    ELSE LET h == CHOOSE x \in n : TRUE IN
         IF \E b \in ty.ge : h < 100 * b THEN Bad(path, "greater_than_equal")
         ELSE IF \E b \in ty.gt : h <= 100 * b THEN Bad(path, "greater_than")
         ELSE Good(VFloat(h))

ValScalar(ty, v, path) ==
    CASE ty.k = "str" ->
           IF v.t = "str" THEN Good(v)
           ELSE IF v.t = "enum" THEN Good(VStr(v.s))
           ELSE Bad(path, "string_type")
      [] ty.k = "bool" ->
           IF AsBool(v) = {} THEN Bad(path, "bool_type")
           ELSE Good(VBool(CHOOSE b \in AsBool(v) : TRUE))
      [] ty.k = "int" -> ValInt(ty, v, path)
      [] ty.k = "float" -> ValFloat(ty, v, path)
      [] ty.k = "enum" ->
           IF v.t = "enum" /\ v.c = ty.c THEN Good(v)
           ELSE IF v.t \in {"str", "enum"} /\ v.s \in ty.vals THEN Good(VEnum(ty.c, v.s))
           ELSE Bad(path, "enum")
      [] ty.k = "literal" ->
           IF v.t = "str" /\ v.s \in ty.vals THEN Good(v)
           ELSE Bad(path, "literal_error")
      [] ty.k = "dict" ->
           IF v.t = "obj" THEN Good(v) ELSE Bad(path, "dict_type")
      [] ty.k = "numstr" ->
           IF v.t \in {"float", "inf", "int", "str"} THEN Good(v)
           ELSE IF v.t = "bool" THEN Good(VFloat(IF v.b THEN 100 ELSE 0))
           ELSE Bad(path, "union")
      [] ty.k = "url" ->
           IF v.t = "url" THEN Good(v)
           ELSE IF v.t = "str" /\ v.s \in DOMAIN HttpUrlLexicon THEN Good(VUrl(HttpUrlLexicon[v.s]))
           ELSE Bad(path, "url_parsing")
      [] ty.k = "time" ->
           IF v.t = "time" THEN Good(v)
           ELSE IF v.t = "str" /\ v.s \in DOMAIN TimeLexicon THEN Good(VTime(TimeLexicon[v.s]))
           ELSE Bad(path, "datetime_parsing")
      [] ty.k = "path" ->
           IF v.t = "path" THEN Good(v)
           ELSE IF v.t = "str" THEN Good(VPath(v.s))
           ELSE Bad(path, "path_type")

RECURSIVE ValType(_, _, _)
RECURSIVE ValModel(_, _, _)

DefaultOf_null(decl) == VNull

\* the value a field takes when the document omits it
DefaultOf(decl) ==
    IF decl.factory = "" THEN decl.def
    ELSE ValModel(decl.factory, VObj(NoFields), <<>>).val

ValField_every_field_required(decl, f, name, path) ==
    IF name \in DOMAIN f THEN ValType(decl.type, f[name], Append(path, name))
    ELSE Bad(Append(path, name), "missing")

\* one declared field of a record, given the document's keys
ValField(decl, f, name, path) ==
    IF name \in DOMAIN f THEN ValType(decl.type, f[name], Append(path, name))
    ELSE IF decl.req THEN Bad(Append(path, name), "missing")
    ELSE Good(DefaultOf(decl))

\* the outcome recorded for key k in a set of <<key, outcome>> pairs
At(per, k) == (CHOOSE x \in per : x[1] = k)[2]

ValModel(c, v, path) ==
    IF v.t = "inst" THEN
        IF IsSubclass(v.c, c) THEN Good(v) ELSE Bad(path, "model_type")
    ELSE IF v.t # "obj" THEN Bad(path, "model_type")
    ELSE LET m      == Model(c)
             known  == DOMAIN m.fields
             extras == IF m.extra = "forbid"
                       THEN {<<Append(path, k), "extra_forbidden">> : k \in (DOMAIN v.f) \ known}
                       ELSE {}
             per    == {<<name, ValField(m.fields[name], v.f, name, path)>> : name \in known}
         IN [errs |-> extras \cup UNION {x[2].errs : x \in per},
             val  |-> VInst(c, [name \in known |-> At(per, name).val])]

ValType(ty, v, path) ==
    CASE ty.k = "model" -> ValModel(ty.c, v, path)
      [] ty.k = "opt" -> IF IsNull(v) THEN Good(VNull) ELSE ValType(ty.of, v, path)
      [] ty.k = "list" ->
           IF v.t # "list" THEN Bad(path, "list_type")
           ELSE LET per == {<<i, ValType(ty.of, v.l[i], Append(path, Idx(i)))>> : i \in DOMAIN v.l}
                IN [errs |-> UNION {x[2].errs : x \in per},
                    val  |-> VList([i \in DOMAIN v.l |-> At(per, i).val])]
      [] OTHER -> ValScalar(ty, v, path)

\* Construction of class c from a document: a value, or the list of every violation
\* (the document and the outcome are each bound once, as values)
Validate(c, d) ==
    LET Outcome(r) ==
            IF r.errs = {} THEN [ok |-> TRUE, errs |-> {}, val |-> r.val]
            ELSE [ok |-> FALSE, errs |-> r.errs, val |-> VNull]
    IN  CHOOSE o \in {Outcome(r) : r \in {ValModel(c, x, <<>>) : x \in {d}}} : TRUE

NoResult == [ok |-> FALSE, errs |-> {}, val |-> VNull]

(***************************************************************************)
(* Serialisation of a constructed value to a JSON document.                *)
(***************************************************************************)
RECURSIVE Serialize(_)
Serialize(v) ==
    CASE v.t = "inst" -> VObj([k \in DOMAIN v.f |-> Serialize(v.f[k])])
      [] v.t = "obj"  -> VObj([k \in DOMAIN v.f |-> Serialize(v.f[k])])
      [] v.t = "list" -> VList([i \in DOMAIN v.l |-> Serialize(v.l[i])])
      [] v.t = "enum" -> VStr(v.s)
      [] v.t = "url"  -> VStr(v.u)
      [] v.t = "time" -> VStr(TimeText(v.n))
      [] v.t = "path" -> VStr(v.p)
      [] v.t = "inf"  -> VNull
      [] OTHER -> v

(***************************************************************************)
(* The caller's documents: one well-formed sample per class (taken from     *)
(* the repository's tests), edited before it is decoded.                    *)
(***************************************************************************)
SampleValidator(type) ==
    VObj([id |-> VStr("val-1"), type |-> VStr(type), version |-> VStr("1.0")])

SampleContext ==
    VObj([callback_id          |-> VStr("cb-1"),
          callback_url         |-> VStr("https://example.com/callback"),
          execution_bundle_uri |-> VStr("gs://bucket/run-1/"),
          timeout_seconds      |-> VInt(600),
          tags                 |-> VList(<<VStr("smoke")>>)])

SampleFile ==
    VObj([name      |-> VStr("model.idf"),
          mime_type |-> VStr("application/vnd.energyplus.idf"),
          role      |-> VStr("primary-model"),
          uri       |-> VStr("gs://bucket/model.idf")])

SampleResource ==
    VObj([id |-> VStr("res-1"), type |-> VStr("weather"), uri |-> VStr("gs://bucket/w.epw")])

SampleInputEnvelope(type, inputs) ==
    VObj([schema_version |-> VStr("validibot.input.v1"),
          run_id         |-> VStr("run-1"),
          validator      |-> SampleValidator(type),
          org            |-> VObj([id |-> VStr("org-1"), name |-> VStr("ValidiBot")]),
          workflow       |-> VObj([id |-> VStr("wf-1"), step_id |-> VStr("step-1"),
                                   step_name |-> VStr("Simulate")]),
          input_files    |-> VList(<<SampleFile>>),
          resource_files |-> VList(<<SampleResource>>),
          inputs         |-> inputs,
          context        |-> SampleContext])

SampleLocation ==
    VObj([file_role |-> VStr("primary-model"), line |-> VInt(3)])

SampleMessage ==
    VObj([severity |-> VStr("ERROR"), text |-> VStr("Missing required object"),
          location |-> SampleLocation])

SampleMetric ==
    VObj([name |-> VStr("electricity_kwh"), value |-> VInt(12345), unit |-> VStr("kWh")])

SampleArtifact ==
    VObj([name |-> VStr("eplusout.sql"), type |-> VStr("simulation-db"),
          uri |-> VStr("gs://bucket/run-1/eplusout.sql")])

SampleRawOutputs ==
    VObj([format |-> VStr("directory"), manifest_uri |-> VStr("gs://bucket/run-1/manifest.json")])

SampleTiming ==
    VObj([queued_at |-> VNull, started_at |-> VStr("2025-01-01T00:00:00Z"),
          finished_at |-> VStr("2025-01-01T00:00:10Z")])

SampleOutputEnvelope(type, outputs) ==
    VObj([schema_version |-> VStr("validibot.output.v1"),
          run_id         |-> VStr("run-1"),
          validator      |-> SampleValidator(type),
          status         |-> VStr("success"),
          timing         |-> SampleTiming,
          messages       |-> VList(<<SampleMessage>>),
          metrics        |-> VList(<<SampleMetric>>),
          artifacts      |-> VList(<<SampleArtifact>>),
          raw_outputs    |-> SampleRawOutputs,
          outputs        |-> outputs])

SampleEnergyPlusInputs ==
    VObj([timestep_per_hour |-> VInt(6), invocation_mode |-> VStr("cli")])

SampleEnergyPlusOutputs ==
    VObj([outputs               |-> VObj([eplusout_sql |-> VStr("outputs/eplusout.sql")]),
          metrics               |-> VObj([site_eui_kwh_m2 |-> VFloat(1050)]),
          logs                  |-> VObj([stdout_tail |-> VStr("log tail")]),
          energyplus_returncode |-> VInt(0),
          execution_seconds     |-> VFloat(320),
          invocation_mode       |-> VStr("cli")])

SampleFMISimulation ==
    VObj([start_time |-> VInt(0), stop_time |-> VInt(10), step_size |-> VInt(1)])

SampleFMIInputs ==
    VObj([input_values     |-> VObj([setpoint |-> VInt(22)]),
          simulation       |-> SampleFMISimulation,
          output_variables |-> VList(<<VStr("y")>>)])

SampleFMIOutputs ==
    VObj([output_values           |-> VObj([y |-> VFloat(100)]),
          execution_seconds       |-> VFloat(250),
          simulation_time_reached |-> VFloat(150)])

SampleVariable(name) ==
    VObj([name |-> VStr(name), causality |-> VStr("input"), value_type |-> VStr("Real")])

Sample(c) ==
    CASE c = "InputFileItem"               -> SampleFile
      [] c = "ResourceFileItem"            -> SampleResource
      [] c = "ValidatorInfo"               -> SampleValidator("BASIC")
      [] c = "OrganizationInfo"            -> VObj([id |-> VStr("org-1"), name |-> VStr("ValidiBot")])
      [] c = "WorkflowInfo"                -> VObj([id |-> VStr("wf-1"), step_id |-> VStr("step-1")])
      [] c = "ExecutionContext"            -> SampleContext
      [] c = "ValidationInputEnvelope"     ->
             SampleInputEnvelope("JSON_SCHEMA", VObj([strict |-> VBool(TRUE)]))
      [] c = "MessageLocation"             -> SampleLocation
      [] c = "ValidationMessage"           -> SampleMessage
      [] c = "ValidationMetric"            -> SampleMetric
      [] c = "ValidationArtifact"          -> SampleArtifact
      [] c = "RawOutputs"                  -> SampleRawOutputs
      [] c = "ValidationTiming"            -> SampleTiming
      [] c = "ValidationOutputEnvelope"    ->
             SampleOutputEnvelope("JSON_SCHEMA", VObj([checked |-> VInt(3)]))
      [] c = "ValidationCallback"          ->
             VObj([run_id |-> VStr("run-1"), callback_id |-> VStr("cb-1"),
                   status |-> VStr("success"), result_uri |-> VStr("gs://bucket/run-1/output.json")])
      [] c = "FMIVariableMeta"             -> SampleVariable("x")
      [] c = "FMIProbeResult"              ->
             VObj([status |-> VStr("success"), variables |-> VList(<<SampleVariable("x")>>),
                   execution_seconds |-> VFloat(250)])
      [] c = "FMISimulationConfig"         -> SampleFMISimulation
      [] c = "FMIInputs"                   -> SampleFMIInputs
      [] c = "FMIOutputs"                  -> SampleFMIOutputs
      [] c = "FMIInputEnvelope"            -> SampleInputEnvelope("FMU", SampleFMIInputs)
      [] c = "FMIOutputEnvelope"           -> SampleOutputEnvelope("FMU", SampleFMIOutputs)
      [] c = "EnergyPlusSimulationOutputs" -> VObj([eplusout_sql |-> VStr("outputs/eplusout.sql")])
      [] c = "EnergyPlusSimulationMetrics" -> VObj([site_electricity_kwh |-> VFloat(12340)])
      [] c = "EnergyPlusSimulationLogs"    -> VObj([stdout_tail |-> VStr("log tail")])
      [] c = "EnergyPlusInputs"            -> SampleEnergyPlusInputs
      [] c = "EnergyPlusOutputs"           -> SampleEnergyPlusOutputs
      [] c = "EnergyPlusInputEnvelope"     ->
             SampleInputEnvelope("ENERGYPLUS", SampleEnergyPlusInputs)
      [] c = "EnergyPlusOutputEnvelope"    ->
             SampleOutputEnvelope("ENERGYPLUS", SampleEnergyPlusOutputs)

(***************************************************************************)
(* Document edits.  An edit names the object it acts on by its path from    *)
(* the root (field names, list positions as "0", "1", ...).                 *)
(***************************************************************************)
MaxEdits == 2

UnknownField == "extra_field"

IdxOf(s) == CASE s = "0" -> 1 [] s = "1" -> 2 [] s = "2" -> 3

RECURSIVE ObjPaths(_)
ObjPaths(v) ==
    CASE v.t = "obj" ->
           {<<>>} \cup UNION {{<<k>> \o p : p \in ObjPaths(v.f[k])} : k \in DOMAIN v.f}
      [] v.t = "list" ->
           UNION {{<<Idx(i)>> \o p : p \in ObjPaths(v.l[i])} : i \in DOMAIN v.l}
      [] OTHER -> {}

RECURSIVE Get(_, _)
Get(v, path) ==
    IF path = <<>> THEN v
    ELSE IF v.t = "list" THEN Get(v.l[IdxOf(Head(path))], Tail(path))
    ELSE Get(v.f[Head(path)], Tail(path))

ApplyEdit(o, e) ==
    CASE e.op = "drop" -> VObj([k \in (DOMAIN o.f) \ {e.key} |-> o.f[k]])
      [] e.key = "" -> VObj(e.val.f @@ o.f)
      [] OTHER -> VObj((e.key :> e.val) @@ o.f)

RECURSIVE EditAt(_, _, _)
EditAt(v, path, e) ==
    IF path = <<>> THEN ApplyEdit(v, e)
    ELSE IF v.t = "list"
         THEN VList([v.l EXCEPT ![IdxOf(Head(path))] = EditAt(@, Tail(path), e)])
         ELSE VObj([v.f EXCEPT ![Head(path)] = EditAt(@, Tail(path), e)])

\* the objects a caller leaves keys out of: the document itself and its context
DropSites(d) == {p \in ObjPaths(d) : p = <<>> \/ p = <<"context">>}

\* field values a caller may write: <<object path, key, value>>
Tweaks ==
    {<<(<<"validator">>), "type", VStr(x)>> : x \in {"ENERGYPLUS", "FMU", "BASIC", "NOT_A_TYPE"}}
    \cup {<<(<<>>), "outputs", VNull>>,
          <<(<<>>), "errors", VList(<<VStr("bad fmu")>>)>>,
          <<(<<>>), "status", VStr("error")>>}

\* the same key written with each of several values
Over(path, key, vals) == {<<path, key, v>> : v \in vals}

\* values outside the range of EnergyPlusInputs.timestep_per_hour, for the
\* EnergyPlusInputs object at path p
TimestepTweaks(p) == Over(p, "timestep_per_hour", {VInt(0), VInt(61)})

\* values the FMISimulationConfig fields refuse, and an infinite stop_time
SimulationTweaks(p) ==
    Over(p, "start_time", {VInt(-1)})
    \cup Over(p, "stop_time", {VInt(0), VInf})
    \cup Over(p, "step_size", {VInt(0)})
    \cup Over(p, "tolerance", {VInt(0)})

\* values below zero for the result fields declared ge=0
SecondsTweaks(p) == Over(p, "execution_seconds", {VInt(-1)})

ReachedTweaks(p) == Over(p, "simulation_time_reached", {VInt(-1)})

MetricTweaks(p, keys) == UNION {Over(p, k, {VInt(-1)}) : k \in keys}

\* a metric whose value is infinite, for the ValidationMetric object at path p
MetricValueTweaks(p) == Over(p, "value", {VInf})

\* the metrics every EnergyPlus sample document carries a place for
SomeMetrics == {"site_eui_kwh_m2", "zone_count"}

\* refused (or infinite) numbers a caller may write into a document of class
\* c, alongside other edits
NumberTweaks(c) ==
    CASE c = "EnergyPlusInputs"            -> TimestepTweaks(<<>>)
      [] c = "EnergyPlusInputEnvelope"     -> TimestepTweaks(<<"inputs">>)
      [] c = "FMISimulationConfig"         -> SimulationTweaks(<<>>)
      [] c = "FMIInputs"                   -> SimulationTweaks(<<"simulation">>)
      [] c = "FMIInputEnvelope"            -> SimulationTweaks(<<"inputs", "simulation">>)
      [] c = "EnergyPlusSimulationMetrics" -> MetricTweaks(<<>>, SomeMetrics)
      [] c = "EnergyPlusOutputs"           ->
             SecondsTweaks(<<>>) \cup MetricTweaks(<<"metrics">>, SomeMetrics)
      [] c = "EnergyPlusOutputEnvelope"    ->
             SecondsTweaks(<<"outputs">>)
             \cup MetricTweaks(<<"outputs", "metrics">>, SomeMetrics)
             \cup MetricValueTweaks(<<"metrics", "0">>)
      [] c = "FMIOutputs"                  -> SecondsTweaks(<<>>) \cup ReachedTweaks(<<>>)
      [] c = "FMIOutputEnvelope"           ->
             SecondsTweaks(<<"outputs">>) \cup ReachedTweaks(<<"outputs">>)
             \cup MetricValueTweaks(<<"metrics", "0">>)
      [] c = "ValidationMetric"            -> MetricValueTweaks(<<>>)
      [] c = "ValidationOutputEnvelope"    -> MetricValueTweaks(<<"metrics", "0">>)
      [] OTHER -> {}

\* numbers at and next to the bounds, written into an otherwise untouched
\* document of class c
BoundaryTweaks(c) ==
    LET TimestepBounds(p) == Over(p, "timestep_per_hour", {VInt(1), VInt(60)})
        SimulationBounds(p) ==
            Over(p, "start_time", {VFloat(-1), VInt(0)})
            \cup Over(p, "stop_time", {VInt(-1), VFloat(1)})
            \cup Over(p, "step_size", {VFloat(-1), VFloat(1)})
            \cup Over(p, "tolerance", {VNull, VFloat(-1), VFloat(1), VInf})
        SecondsBounds(p) == Over(p, "execution_seconds", {VFloat(-1), VInt(0)})
        ReachedBounds(p) == Over(p, "simulation_time_reached", {VInt(0)})
        MetricBounds(p, keys) == UNION {Over(p, k, {VInt(0), VNull}) : k \in keys}
    IN
    CASE c = "EnergyPlusInputs"            -> TimestepBounds(<<>>)
      [] c = "EnergyPlusInputEnvelope"     -> TimestepBounds(<<"inputs">>)
      [] c = "FMISimulationConfig"         -> SimulationBounds(<<>>)
      [] c = "FMIInputs"                   -> SimulationBounds(<<"simulation">>)
      [] c = "FMIInputEnvelope"            -> SimulationBounds(<<"inputs", "simulation">>)
      [] c = "EnergyPlusSimulationMetrics" ->
             MetricTweaks(<<>>, (DOMAIN EnergyPlusSimulationMetrics.fields) \ SomeMetrics)
             \cup MetricBounds(<<>>, DOMAIN EnergyPlusSimulationMetrics.fields)
      [] c = "EnergyPlusOutputs"           ->
             SecondsBounds(<<>>) \cup MetricBounds(<<"metrics">>, SomeMetrics)
      [] c = "EnergyPlusOutputEnvelope"    ->
             SecondsBounds(<<"outputs">>)
             \cup MetricBounds(<<"outputs", "metrics">>, SomeMetrics)
      [] c = "FMIOutputs"                  -> SecondsBounds(<<>>) \cup ReachedBounds(<<>>)
      [] c = "FMIOutputEnvelope"           ->
             SecondsBounds(<<"outputs">>) \cup ReachedBounds(<<"outputs">>)
      [] OTHER -> {}

AllNumberTweaks(c) == NumberTweaks(c) \cup BoundaryTweaks(c)

OutputEnvelopes == {"ValidationOutputEnvelope"} \cup FamilyOutputEnvelopes

InputEnvelopes == {"ValidationInputEnvelope"} \cup FamilyInputEnvelopes

\* words a caller may write into the enumeration fields of a document of
\* class c, changing nothing else
EnumTweaks(c) ==
    LET \* the members, and strings that are none: unknown words, a member's
        \* name in place of its value, a member's value in another case
        Status(p)   == Over(p, "status", {VStr(x) : x \in
                            ValidationStatus \cup {"bad-status", "SUCCESS", "error"}})
        Severe(p)   == Over(p, "severity", {VStr(x) : x \in
                            Severity \cup {"fatal", "info", "CRITICAL"}})
        TypeOf(p)   == Over(p, "type", {VStr(x) : x \in
                            ValidatorType \cup {"NOT_A_TYPE", "fmu"}})
    IN
    CASE c = "ValidatorInfo"      -> TypeOf(<<>>)
      [] c = "ValidationMessage"  -> Severe(<<>>)
      [] c = "ValidationCallback" -> Status(<<>>)
      [] c \in OutputEnvelopes    ->
             Status(<<>>) \cup TypeOf(<<"validator">>) \cup Severe(<<"messages", "0">>)
      [] c \in InputEnvelopes     -> TypeOf(<<"validator">>)
      [] OTHER -> {}

\* schema_version values a caller may write into an envelope document,
\* changing nothing else: both kinds' literals, a later version, the empty
\* string, and the number 1
VersionTweaks(c) ==
    IF c \in InputEnvelopes \cup OutputEnvelopes
    THEN Over(<<>>, "schema_version",
              {VStr("validibot.input.v1"), VStr("validibot.output.v1"),
               VStr("validibot.input.v2"), VStr(""), VInt(1)})
    ELSE {}

\* fields of one object a caller may write together into an otherwise
\* untouched document of class c: <<object path, fields, what is written>>
Overlays(c) ==
    LET \* invocation_mode: the two declared modes and two other words
        Modes(p) == {<<p, [invocation_mode |-> VStr(m)], "mode">> :
                        m \in {"cli", "python_api", "invalid-mode", "CLI"}}
        \* a storage URI: file://, a local path, the empty string
        Uri(p, key) == {<<p, (key :> VStr(u)), "uri">> :
                           u \in {"file:///data/run-1/model.fmu", "/data/run-1/model.fmu", ""}}
        \* callback_url: http, and strings that are no http(s) URL
        Url(p) == {<<p, [callback_url |-> VStr(u)], "uri">> :
                      u \in {"http://example.com/callback", "not-a-url",
                             "gs://bucket/callback", ""}}
        Context(p) == Uri(p, "execution_bundle_uri") \cup Url(p)
        \* a value of another type than the field declares
        Typed(p, key, vals) == {<<p, (key :> v), "type">> : v \in vals}
        Timestep(p) == Typed(p, "timestep_per_hour", {VStr("4"), VFloat(400), VBool(TRUE)})
        Limits(p) == Typed(p, "timeout_seconds", {VStr("4"), VFloat(400)})
                     \cup Typed(p, "skip_callback", {VStr("true"), VInt(1), VBool(TRUE)})
                     \cup Typed(p, "execution_bundle_uri", {VInt(1)})
        RunId == Typed(<<>>, "run_id", {VInt(1), VBool(TRUE)})
        \* the three timestamps, each absent or one of two instants
        Instants == {VNull, VStr("2025-01-01T00:00:00Z"), VStr("2025-01-01T00:00:10Z")}
        Timings == [queued_at : Instants, started_at : Instants, finished_at : Instants]
        \* the contents of a report: messages, metrics and artifacts, each empty or not
        Contents == [messages  : {VList(<<>>), VList(<<SampleMessage>>),
                                  VList(<<VObj([severity |-> VStr("INFO"),
                                                text |-> VStr("done")])>>)},
                     metrics   : {VList(<<>>), VList(<<SampleMetric>>)},
                     artifacts : {VList(<<>>), VList(<<SampleArtifact>>)}]
        Status(x) == [status |-> VStr(x)]
        \* a simulation window whose fields are each in range, in every order
        Windows(p) == {<<p, w, "window">> :
                          w \in [start_time : {VInt(1), VInt(5)},
                                 stop_time  : {VInt(1), VInt(5)},
                                 step_size  : {VInt(1), VInt(10)}]}
        Statuses == {"success", "failed_validation", "failed_runtime", "cancelled"}
    IN  (CASE c = "EnergyPlusInputs"        -> Modes(<<>>)
           [] c = "EnergyPlusInputEnvelope" -> Modes(<<"inputs">>)
           [] OTHER -> {})
        \cup
        (CASE c = "ExecutionContext"   -> Context(<<>>)
           [] c = "InputFileItem"      -> Uri(<<>>, "uri")
           [] c = "ResourceFileItem"   -> Uri(<<>>, "uri")
           [] c = "ValidationArtifact" -> Uri(<<>>, "uri")
           [] c = "RawOutputs"         -> Uri(<<>>, "manifest_uri")
           [] c = "ValidationCallback" -> Uri(<<>>, "result_uri")
           [] c \in InputEnvelopes     ->
                  Context(<<"context">>) \cup Uri(<<"input_files", "0">>, "uri")
                  \cup Uri(<<"resource_files", "0">>, "uri")
           [] c \in OutputEnvelopes    ->
                  Uri(<<"artifacts", "0">>, "uri") \cup Uri(<<"raw_outputs">>, "manifest_uri")
           [] OTHER -> {})
        \cup
        (CASE c = "EnergyPlusInputs"        -> Timestep(<<>>)
           [] c = "EnergyPlusInputEnvelope" ->
                  Timestep(<<"inputs">>) \cup Limits(<<"context">>) \cup RunId
           [] c = "ExecutionContext"        -> Limits(<<>>)
           [] c \in {"ValidationInputEnvelope", "FMIInputEnvelope"} ->
                  Limits(<<"context">>) \cup RunId
           [] c \in OutputEnvelopes \cup {"ValidationCallback"} -> RunId
           [] OTHER -> {})
        \cup
        (CASE c = "FMISimulationConfig" -> Windows(<<>>)
           [] c = "FMIInputs"           -> Windows(<<"simulation">>)
           [] c = "FMIInputEnvelope"    -> Windows(<<"inputs", "simulation">>)
           [] OTHER -> {})
        \cup
        (CASE c = "ValidationTiming" -> {<<(<<>>), t, "times">> : t \in Timings}
           [] c \in OutputEnvelopes  ->
                  {<<(<<>>), Status(x) @@ [timing |-> VObj(t)], "times">> :
                      x \in Statuses, t \in Timings}
                  \cup {<<(<<>>), Status(x) @@ r, "report">> :
                            x \in Statuses, r \in Contents}
           [] OTHER -> {})

(***************************************************************************)
(* fmi/models.py: the probe result factories.                               *)
(***************************************************************************)
\* Python's "x or []" for an optional list argument
OrEmptyList(x) == IF IsNull(x) \/ (x.t = "list" /\ Len(x.l) = 0) THEN VList(<<>>) ELSE x

\* success() that leaves status to the class default
FMIProbeResult_success_default_status(variables, execution_seconds, messages) ==
    Validate("FMIProbeResult",
             VObj([variables         |-> variables,
                   execution_seconds |-> execution_seconds,
                   messages          |-> OrEmptyList(messages),
                   errors            |-> VList(<<>>)]))

FMIProbeResult_success(variables, execution_seconds, messages) ==
    Validate("FMIProbeResult",
             VObj([status            |-> VStr("success"),
                   variables         |-> variables,
                   execution_seconds |-> execution_seconds,
                   messages          |-> OrEmptyList(messages),
                   errors            |-> VList(<<>>)]))

FMIProbeResult_failure(errors, messages) ==
    Validate("FMIProbeResult",
             VObj([status    |-> VStr("error"),
                   variables |-> VList(<<>>),
                   errors    |-> errors,
                   messages  |-> OrEmptyList(messages)]))

\* arguments the factories are called with
MaxItems == 2

SeqsUpTo(S, n) == UNION {[1..k -> S] : k \in 0..n}

VariableArgs ==
    {VList(q) : q \in SeqsUpTo({Validate("FMIVariableMeta", SampleVariable(n)).val
                                  : n \in {"x", "y"}}, MaxItems)}

TextListArgs(S) == {VList(q) : q \in SeqsUpTo({VStr(x) : x \in S}, MaxItems)}

SecondsArgs == {VNull, VFloat(250)}

MessageArgs == {VNull} \cup TextListArgs({"probed"})

ErrorArgs == TextListArgs({"bad fmu", "no modelDescription.xml"})

(***************************************************************************)
(* fmi/envelopes.py: build_fmi_input_envelope.  The keyword arguments are   *)
(* a record a; a.validator is the validator-like object, the map of its    *)
(* attributes (version may be missing).                                     *)
(***************************************************************************)
\* Python's str(x) for the identifiers passed as validator.id
StrOf(v) ==
    IF v.t = "int" THEN VStr(CHOOSE s \in DOMAIN IntLexicon : IntLexicon[s] = v.i) ELSE v

\* Python's "x or y"
Or(x, y) ==
    IF \/ IsNull(x)
       \/ (x.t = "list" /\ Len(x.l) = 0)
       \/ (x.t = "obj" /\ DOMAIN x.f = {})
    THEN y ELSE x

\* an exception other than a validation error, raised at the named expression
Raised(where, exc) == [ok |-> FALSE, errs |-> {<<where, exc>>}, val |-> VNull]

BuildEnvelope_fixed_version(a, input_files, envelope_inputs, context) ==
    Validate("FMIInputEnvelope",
        VObj([run_id      |-> a.run_id,
              validator   |-> VObj([id      |-> StrOf(a.validator.f.id),
                                    type    |-> VEnum("ValidatorType", a.validator.f.validation_type.s),
                                    version |-> VStr("1.0.0")]),
              org         |-> VObj([id |-> a.org_id, name |-> a.org_name]),
              workflow    |-> VObj([id |-> a.workflow_id, step_id |-> a.step_id,
                                    step_name |-> a.step_name]),
              input_files |-> VList(<<input_files>>),
              inputs      |-> envelope_inputs,
              context     |-> context]))

\* the envelope construction that ends build_fmi_input_envelope
BuildEnvelope(a, input_files, envelope_inputs, context) ==
    Validate("FMIInputEnvelope",
        VObj([run_id      |-> a.run_id,
              validator   |-> VObj([id      |-> StrOf(a.validator.f.id),
                                    type    |-> VEnum("ValidatorType", a.validator.f.validation_type.s),
                                    version |-> IF "version" \in DOMAIN a.validator.f
                                                THEN a.validator.f.version ELSE VStr("1.0.0")]),
              org         |-> VObj([id |-> a.org_id, name |-> a.org_name]),
              workflow    |-> VObj([id |-> a.workflow_id, step_id |-> a.step_id,
                                    step_name |-> a.step_name]),
              input_files |-> VList(<<input_files>>),
              inputs      |-> envelope_inputs,
              context     |-> context]))

\* build_fmi_input_envelope that returns an envelope without a context when the
\* context does not validate
build_fmi_input_envelope_unchecked_context(a) ==
    LET file == Validate("InputFileItem",
                    VObj([name |-> VStr("model.fmu"),
                          mime_type |-> VEnum("SupportedMimeType", "application/vnd.fmi.fmu"),
                          role |-> VStr("fmu"), uri |-> a.fmu_uri]))
        inputs == Validate("FMIInputs",
                      VObj([input_values     |-> a.input_values,
                            simulation       |-> Or(a.simulation,
                                                    Validate("FMISimulationConfig", VObj(NoFields)).val),
                            output_variables |-> Or(a.output_variables, VList(<<>>))]))
        context == Validate("ExecutionContext",
                      VObj([callback_url |-> a.callback_url,
                            execution_bundle_uri |-> a.execution_bundle_uri]))
        bare == BuildEnvelope(a, file.val, inputs.val,
                              Validate("ExecutionContext",
                                       VObj([execution_bundle_uri |-> a.execution_bundle_uri])).val)
    IN  IF ~file.ok THEN file
        ELSE IF ~inputs.ok THEN inputs
        ELSE IF a.validator.f.validation_type.s \notin ValidatorType
             THEN Raised(<<"validator", "validation_type">>, "ValueError")
        ELSE IF ~context.ok
             THEN [bare EXCEPT !.val = VInst("FMIInputEnvelope", [bare.val.f EXCEPT !.context = VNull])]
        ELSE BuildEnvelope(a, file.val, inputs.val, context.val)

\* build_fmi_input_envelope that names the file by its uri
build_fmi_input_envelope_named_by_uri(a) ==
    LET file == Validate("InputFileItem",
                    VObj([name |-> a.fmu_uri,
                          mime_type |-> VEnum("SupportedMimeType", "application/vnd.fmi.fmu"),
                          role |-> VStr("fmu"), uri |-> a.fmu_uri]))
        inputs == Validate("FMIInputs",
                      VObj([input_values     |-> a.input_values,
                            simulation       |-> Or(a.simulation,
                                                    Validate("FMISimulationConfig", VObj(NoFields)).val),
                            output_variables |-> Or(a.output_variables, VList(<<>>))]))
        context == Validate("ExecutionContext",
                      VObj([callback_url |-> a.callback_url,
                            execution_bundle_uri |-> a.execution_bundle_uri]))
    IN  IF ~file.ok THEN file
        ELSE IF ~inputs.ok THEN inputs
        ELSE IF ~context.ok THEN context
        ELSE IF a.validator.f.validation_type.s \notin ValidatorType
             THEN Raised(<<"validator", "validation_type">>, "ValueError")
        ELSE BuildEnvelope(a, file.val, inputs.val, context.val)

build_fmi_input_envelope(a) ==
    LET file == Validate("InputFileItem",
                    VObj([name |-> VStr("model.fmu"),
                          mime_type |-> VEnum("SupportedMimeType", "application/vnd.fmi.fmu"),
                          role |-> VStr("fmu"), uri |-> a.fmu_uri]))
        inputs == Validate("FMIInputs",
                      VObj([input_values     |-> a.input_values,
                            simulation       |-> Or(a.simulation,
                                                    Validate("FMISimulationConfig", VObj(NoFields)).val),
                            output_variables |-> Or(a.output_variables, VList(<<>>))]))
        context == Validate("ExecutionContext",
                      VObj([callback_url |-> a.callback_url,
                            execution_bundle_uri |-> a.execution_bundle_uri]))
    IN  IF ~file.ok THEN file
        ELSE IF ~inputs.ok THEN inputs
        ELSE IF ~context.ok THEN context
        ELSE IF a.validator.f.validation_type.s \notin ValidatorType
             THEN Raised(<<"validator", "validation_type">>, "ValueError")
        ELSE BuildEnvelope(a, file.val, inputs.val, context.val)

\* the validator-like objects a caller passes
ValidatorArgs ==
    {VObj([id |-> VInt(1), validation_type |-> VStr(ty), version |-> VStr("0.1.0")])
        : ty \in {"FMU", "ENERGYPLUS", "NOT_A_TYPE"}}
    \cup {VObj([id |-> VStr("val-1"), validation_type |-> VStr("FMU")])}

\* the keyword arguments a caller passes
BuildArgs ==
    [run_id               : {VStr("run-1")},
     validator            : ValidatorArgs,
     org_id               : {VStr("org-1")},
     org_name             : {VStr("ValidiBot")},
     workflow_id          : {VStr("wf-1")},
     step_id              : {VStr("step-1")},
     step_name            : {VStr("Simulate"), VNull},
     fmu_uri              : {VStr("gs://bucket/model.fmu"), VNull},
     input_values         : {VObj([u1 |-> VFloat(100)])},
     callback_url         : {VStr("https://example.com/callback"), VStr("https://example.com"),
                             VStr("not-a-url")},
     execution_bundle_uri : {VStr("gs://bucket/run-1/")},
     simulation           : {VNull, Validate("FMISimulationConfig", SampleFMISimulation).val,
                             VObj([stop_time |-> VInt(0)])},
     output_variables     : {VNull, VList(<<>>), VList(<<VStr("y")>>),
                             VList(<<VStr("y"), VStr("z")>>)}]

(***************************************************************************)
(* The state machine.                                                      *)
(***************************************************************************)
Init ==
    /\ cls \in Classes
    /\ doc = Sample(cls)
    /\ hist = {}
    /\ pc = "edit"
    /\ result = NoResult
    /\ rebased = NoResult
    /\ jobs = {} /\ wire = {} /\ log = <<>>

Edit(p, e) ==
    /\ pc = "edit"
    /\ Cardinality(hist) < MaxEdits
    /\ p \in ObjPaths(doc)
    /\ doc' = EditAt(doc, p, e)
    /\ doc' # doc
    /\ hist' = hist \cup {[op |-> e.op, at |-> p, key |-> e.key, val |-> e.val]}
    /\ UNCHANGED <<cls, pc, result, rebased>>
    /\ UNCHANGED cbvars

\* the caller adds a key no class declares
AddUnknown ==
    \E p \in ObjPaths(doc) :
        Edit(p, [op |-> "add", key |-> UnknownField, val |-> VStr("nope")])

\* the caller leaves a key out
DropField ==
    \E p \in DropSites(doc) : \E k \in DOMAIN Get(doc, p).f :
        Edit(p, [op |-> "drop", key |-> k, val |-> VNull])

\* the caller writes another value to a declared key
SetField ==
    \E tw \in Tweaks :
        /\ tw[1] \in ObjPaths(doc)
        /\ \/ tw[2] \in DOMAIN Get(doc, tw[1]).f
           \/ tw[1] = <<>> /\ tw[2] \in DOMAIN Model(cls).fields
        /\ Edit(tw[1], [op |-> "set", key |-> tw[2], val |-> tw[3]])

\* the caller writes a number into a range-constrained field
SetNumber ==
    \E tw \in NumberTweaks(cls) :
        /\ tw[1] \in ObjPaths(doc)
        /\ Edit(tw[1], [op |-> "num", key |-> tw[2], val |-> tw[3]])

\* the caller writes a number at or next to a bound, and changes nothing else
SetBoundary ==
    /\ hist = {}
    /\ \E tw \in BoundaryTweaks(cls) :
        /\ tw[1] \in ObjPaths(doc)
        /\ Edit(tw[1], [op |-> "num", key |-> tw[2], val |-> tw[3]])

\* the caller writes several fields of one object, and changes nothing else
Overlay ==
    /\ hist = {}
    /\ \E ov \in Overlays(cls) :
        Edit(ov[1], [op |-> ov[3], key |-> "", val |-> VObj(ov[2])])

\* cls() with no arguments
Construct ==
    /\ pc = "edit"
    /\ hist = {}
    /\ doc' = VObj(NoFields)
    /\ hist' = {[op |-> "new", at |-> <<>>, key |-> "", val |-> VNull]}
    /\ UNCHANGED <<cls, pc, result, rebased>>
    /\ UNCHANGED cbvars

\* the caller writes a schema_version into an envelope document, and changes
\* nothing else
SetVersion ==
    /\ hist = {}
    /\ \E tw \in VersionTweaks(cls) :
        Edit(tw[1], [op |-> "version", key |-> tw[2], val |-> tw[3]])

\* the caller writes a word into an enumeration field, and changes nothing else
SetEnum ==
    /\ hist = {}
    /\ \E tw \in EnumTweaks(cls) :
        /\ tw[1] \in ObjPaths(doc)
        /\ Edit(tw[1], [op |-> "enum", key |-> tw[2], val |-> tw[3]])

\* cls.model_validate(doc) / cls(**doc)
Decode ==
    /\ pc = "edit"
    /\ result' = Validate(cls, doc)
    /\ pc' = "decoded"
    /\ UNCHANGED <<cls, doc, hist, rebased>>
    /\ UNCHANGED cbvars

\* Base.model_validate(envelope.model_dump(mode="json")) for a family envelope
Rebase ==
    /\ pc = "decoded"
    /\ cls \in FamilyEnvelopes
    /\ result.ok
    /\ rebased' = Validate(BaseOf(cls), Serialize(result.val))
    /\ pc' = "rebased"
    /\ UNCHANGED <<cls, doc, hist, result>>
    /\ UNCHANGED cbvars

\* cls.model_validate_json(value.model_dump_json()): the value is encoded and
\* decoded again with the same class
Reload ==
    /\ pc = "decoded"
    /\ result.ok
    /\ rebased' = Validate(cls, Serialize(result.val))
    /\ pc' = "reloaded"
    /\ UNCHANGED <<cls, doc, hist, result>>
    /\ UNCHANGED cbvars

\* FMIProbeResult.success(variables=..., execution_seconds=..., messages=...)
ProbeSuccess ==
    /\ pc = "edit" /\ cls = "FMIProbeResult" /\ hist = {}
    /\ \E v \in VariableArgs, s \in SecondsArgs, m \in MessageArgs :
        /\ doc' = VObj([variables |-> v, execution_seconds |-> s, messages |-> m])
        /\ result' = FMIProbeResult_success(v, s, m)
    /\ pc' = "success"
    /\ UNCHANGED <<cls, hist, rebased>>
    /\ UNCHANGED cbvars

\* FMIProbeResult.failure(errors=..., messages=...)
ProbeFailure ==
    /\ pc = "edit" /\ cls = "FMIProbeResult" /\ hist = {}
    /\ \E e \in ErrorArgs, m \in MessageArgs :
        /\ doc' = VObj([errors |-> e, messages |-> m])
        /\ result' = FMIProbeResult_failure(e, m)
    /\ pc' = "failure"
    /\ UNCHANGED <<cls, hist, rebased>>
    /\ UNCHANGED cbvars

\* build_fmi_input_envelope(**a); doc holds the caller's arguments after the call
Build ==
    /\ pc = "edit" /\ cls = "FMIInputEnvelope" /\ hist = {}
    /\ \E a \in BuildArgs :
        /\ hist' = {[op |-> "call", at |-> <<>>, key |-> "build_fmi_input_envelope", val |-> VObj(a)]}
        /\ doc' = VObj(a)
        /\ result' = build_fmi_input_envelope(a)
    /\ pc' = "built"
    /\ UNCHANGED <<cls, rebased>>
    /\ UNCHANGED cbvars

\* model_config["frozen"] of a class (the framework's default when not declared)
Frozen(c) == "frozen" \in DOMAIN Model(c) /\ Model(c).frozen

\* instance.name = v on a constructed instance: refused on a frozen class and for
\* a name the class does not declare; otherwise stored as given
\* (validate_assignment is not declared either)
SetAttr(inst, name, v) ==
    IF Frozen(inst.c) \/ name \notin DOMAIN Model(inst.c).fields
    THEN inst
    ELSE VInst(inst.c, [inst.f EXCEPT ![name] = v])

\* the caller assigns to an attribute of the constructed value
SetAttribute ==
    /\ pc = "decoded" /\ hist = {} /\ result.ok
    /\ \E name \in DOMAIN result.val.f, v \in {VStr("oops"), VInt(-1)} :
        /\ result' = [result EXCEPT !.val = SetAttr(result.val, name, v)]
        /\ result' # result
    /\ pc' = "mutated"
    /\ UNCHANGED <<cls, doc, hist, rebased>>
    /\ UNCHANGED cbvars

\* the caller appends to a list held by the constructed value: the instance
\* holds the list object itself, so no assignment is involved
AppendInPlace ==
    /\ pc = "decoded" /\ hist = {} /\ result.ok
    /\ \E name \in {n \in DOMAIN result.val.f : result.val.f[n].t = "list"} :
        result' = [result EXCEPT !.val.f[name].l = Append(@, VInt(-1))]
    /\ pc' = "mutated"
    /\ UNCHANGED <<cls, doc, hist, rebased>>
    /\ UNCHANGED cbvars

Next ==
    \/ AddUnknown
    \/ DropField
    \/ SetField
    \/ SetNumber
    \/ SetBoundary
    \/ SetEnum
    \/ SetVersion
    \/ Overlay
    \/ Construct
    \/ Decode
    \/ Rebase
    \/ Reload
    \/ ProbeSuccess
    \/ ProbeFailure
    \/ Build
    \/ SetAttribute
    \/ AppendInPlace

Spec == Init /\ [][Next]_vars

(***************************************************************************)
(* The callback exchange.  This package declares the two ends of it        *)
(* (ExecutionContext.callback_id, ValidationCallback.callback_id) and       *)
(* documents the protocol in their descriptions; the launcher, the          *)
(* validator container and the callback handler follow that description.   *)
(***************************************************************************)
MaxDeliveries == 4

\* the jobs, and the idempotency key generated for each at launch (null: none)
RunIds == {"run-1", "run-2", "run-3"}

CallbackIdOf(run) ==
    CASE run = "run-1" -> VStr("cb-1") [] run = "run-2" -> VStr("cb-2") [] OTHER -> VNull

\* the keys of the deliveries processed so far
SeenIds(l) == {l[i].callback_id : i \in {j \in DOMAIN l : l[j].processed}}

\* the handler that processes every delivery
IsDuplicate_never(id, l) == FALSE

\* the handler's test for a duplicate delivery
IsDuplicate(id, l) == ~IsNull(id) /\ id \in SeenIds(l)

\* the orchestrator launches a job: its input envelope carries the context
LaunchJob ==
    \E run \in RunIds :
        /\ \A j \in jobs : j.run_id # run
        /\ LET c == Validate("ExecutionContext",
                        VObj([callback_id          |-> CallbackIdOf(run),
                              callback_url         |-> VStr("https://example.com/callback"),
                              execution_bundle_uri |-> VStr("gs://bucket/run-1/")]))
           IN jobs' = jobs \cup {[run_id |-> run, context |-> c.val]}
        /\ UNCHANGED <<cls, doc, hist, pc, result, rebased, wire, log>>

\* the validator finishes a job and posts its callback
SendCallback ==
    \E j \in jobs, st \in {"success", "failed_runtime"} :
        /\ \A m \in wire : m.f.run_id # VStr(j.run_id)
        /\ LET cb == Validate("ValidationCallback",
                         VObj([run_id      |-> VStr(j.run_id),
                               callback_id |-> j.context.f.callback_id,
                               status      |-> VEnum("ValidationStatus", st),
                               result_uri  |-> VStr("gs://bucket/run-1/output.json")]))
           IN cb.ok /\ wire' = wire \cup {Serialize(cb.val)}
        /\ UNCHANGED <<cls, doc, hist, pc, result, rebased, jobs, log>>

\* a posted callback is delivered (any number of times, in any order)
DeliverCallback ==
    \E m \in wire :
        /\ Len(log) < MaxDeliveries
        /\ LET cb == Validate("ValidationCallback", m)
           IN /\ cb.ok
              /\ log' = Append(log, [run_id      |-> cb.val.f.run_id.s,
                                     callback_id |-> cb.val.f.callback_id,
                                     processed   |-> ~IsDuplicate(cb.val.f.callback_id, log)])
        /\ UNCHANGED <<cls, doc, hist, pc, result, rebased, jobs, wire>>

CallbackInit ==
    /\ cls = "ValidationCallback"
    /\ doc = Sample(cls)
    /\ hist = {}
    /\ pc = "edit"
    /\ result = NoResult
    /\ rebased = NoResult
    /\ jobs = {} /\ wire = {} /\ log = <<>>

CallbackNext ==
    \/ LaunchJob
    \/ SendCallback
    \/ DeliverCallback

CallbackSpec == CallbackInit /\ [][CallbackNext]_vars

(***************************************************************************)
(* Vocabulary of the properties.                                           *)
(***************************************************************************)
\* result holds the outcome of constructing cls from doc
Decoded == pc \in {"decoded", "rebased"}

\* the objects of a document that carry the key no class declares
UnknownSites(d) == {p \in ObjPaths(d) : UnknownField \in DOMAIN Get(d, p).f}

\* the paths inside the open map of a base envelope (inputs / outputs)
InBaseOpenMap(p) == p # <<>> /\ Head(p) \in {"inputs", "outputs"}

\* the paths inside an open map of the FMI payloads (input_values / output_values)
InFMIOpenMap(p) == \E i \in 1..Len(p) : p[i] \in {"input_values", "output_values"}

\* the validator.type tag of the family a family envelope belongs to
FamilyTag(c) ==
    IF c \in {"EnergyPlusInputEnvelope", "EnergyPlusOutputEnvelope"} THEN "ENERGYPLUS" ELSE "FMU"

\* the fields of a class other than the family payload
NonPayload(c) == (DOMAIN Model(c).fields) \ {"inputs", "outputs"}

\* the fields of a class that have a default
Defaulted(c) == {f \in DOMAIN Model(c).fields : ~Model(c).fields[f].req}

\* a probe result in one of its two states
ProbeConsistent(v) ==
    /\ v.f.status.s = "success" => Len(v.f.errors.l) = 0
    /\ v.f.status.s = "error" => Len(v.f.variables.l) = 0 /\ Len(v.f.errors.l) > 0

(***************************************************************************)
(* C1: a base record rejects a document that carries an unknown field, at  *)
(* the top level or inside any nested record, names the field, and yields  *)
(* no value.                                                               *)
(***************************************************************************)
C1_BaseRecordsRejectUnknownFields ==
    (Decoded /\ cls \in BaseRecords) =>
        \A p \in UnknownSites(doc) :
            ~InBaseOpenMap(p) =>
                /\ ~result.ok
                /\ result.val = VNull
                /\ <<Append(p, UnknownField), "extra_forbidden">> \in result.errs

C1_Witness ==
    /\ Decoded /\ cls = "ValidationOutputEnvelope"
    /\ <<"messages", "0", "location">> \in UnknownSites(doc)
    /\ ~result.ok

(***************************************************************************)
(* C2: every FMI family model rejects a document that carries an unknown   *)
(* field, also inside the inputs / outputs payload of an FMI envelope.     *)
(***************************************************************************)
C2_FMIRecordsRejectUnknownFields ==
    (Decoded /\ cls \in FMIRecords) =>
        \A p \in UnknownSites(doc) : ~InFMIOpenMap(p) => ~result.ok

(***************************************************************************)
(* C3: every EnergyPlus family model rejects a document that carries an    *)
(* unknown field, also inside the inputs / outputs payload of an           *)
(* EnergyPlus envelope.                                                    *)
(***************************************************************************)
C3_EnergyPlusRecordsRejectUnknownFields ==
    (Decoded /\ cls \in EnergyPlusRecords) =>
        \A p \in UnknownSites(doc) :
            /\ ~result.ok
            /\ <<Append(p, UnknownField), "extra_forbidden">> \in result.errs

C3_Witness ==
    /\ Decoded /\ cls = "EnergyPlusOutputEnvelope"
    /\ <<"outputs", "metrics">> \in UnknownSites(doc)
    /\ ~result.ok

(***************************************************************************)
(* C4: a family input envelope accepts a document only when the document's *)
(* validator.type is that family's tag.                                    *)
(***************************************************************************)
C4_FamilySelectedByValidatorType ==
    (Decoded /\ cls \in FamilyInputEnvelopes /\ result.ok) =>
        result.val.f.validator.f.type.s = FamilyTag(cls)

(***************************************************************************)
(* C5: the serialised form of every accepted family envelope is accepted   *)
(* by the base envelope, with the same value in every non-payload field.   *)
(***************************************************************************)
C5_FamilyEnvelopeIsBaseEnvelope ==
    /\ (Decoded /\ cls \in FamilyEnvelopes /\ result.ok) =>
           Validate(BaseOf(cls), Serialize(result.val)).ok
    /\ pc = "rebased" =>
           /\ rebased.ok
           /\ \A f \in NonPayload(BaseOf(cls)) : rebased.val.f[f] = result.val.f[f]

C5_Witness ==
    /\ pc = "rebased" /\ cls = "FMIInputEnvelope" /\ hist # {}
    /\ rebased.ok
    /\ rebased.val.f.context = result.val.f.context

(***************************************************************************)
(* C6: every family output envelope accepts an otherwise valid document    *)
(* whose outputs is absent or null, and decodes it with outputs = null.    *)
(***************************************************************************)
C6_FamilyOutputsMayBeAbsent ==
    (/\ Decoded /\ cls \in FamilyOutputEnvelopes
     /\ doc \in {EditAt(Sample(cls), <<>>, [op |-> "drop", key |-> "outputs", val |-> VNull]),
                 EditAt(Sample(cls), <<>>, [op |-> "set", key |-> "outputs", val |-> VNull])})
    => (result.ok /\ result.val.f.outputs = VNull)

(***************************************************************************)
(* C7: a document that omits fields the base envelope gives a default      *)
(* decodes under each family envelope whenever it decodes under the base,  *)
(* and each omitted field takes the default the base gives it.             *)
(***************************************************************************)
C7_DefaultsIdenticalInFamilies ==
    (/\ Decoded /\ cls \in FamilyEnvelopes /\ hist # {}
     /\ \A e \in hist : e.op = "drop" /\ e.at = <<>> /\ e.key \in Defaulted(BaseOf(cls))
     /\ Validate(BaseOf(cls), doc).ok)
    => /\ result.ok
       /\ \A e \in hist : result.val.f[e.key] = Validate(BaseOf(cls), doc).val.f[e.key]

(***************************************************************************)
(* C8: FMIProbeResult.success returns status "success", no errors, the     *)
(* given variables in the given order, and the given messages ([] when     *)
(* omitted or null).                                                       *)
(***************************************************************************)
C8_SuccessFactory ==
    pc = "success" =>
        /\ result.ok
        /\ result.val.f.status = VStr("success")
        /\ result.val.f.errors = VList(<<>>)
        /\ result.val.f.variables = doc.f.variables
        /\ result.val.f.messages = (IF IsNull(doc.f.messages) THEN VList(<<>>) ELSE doc.f.messages)

C8_Witness ==
    /\ pc = "success"
    /\ Len(doc.f.variables.l) = 2
    /\ doc.f.variables.l[1] # doc.f.variables.l[2]
    /\ ~IsNull(doc.f.messages) /\ Len(doc.f.messages.l) > 0
    /\ result.ok /\ result.val.f.variables = doc.f.variables

(***************************************************************************)
(* C9: FMIProbeResult.failure returns status "error", no variables and the *)
(* given errors, and its errors list is never empty.                       *)
(***************************************************************************)
C9_FailureFactory ==
    pc = "failure" =>
        /\ result.ok
        /\ result.val.f.status = VStr("error")
        /\ result.val.f.variables = VList(<<>>)
        /\ result.val.f.errors = doc.f.errors
        /\ Len(result.val.f.errors.l) > 0

(***************************************************************************)
(* C10: every FMIProbeResult that construction yields is consistent:       *)
(* status "success" has no errors, status "error" has no variables and at  *)
(* least one error; the constructor cannot produce another combination.    *)
(***************************************************************************)
C10_ProbeResultAlwaysConsistent ==
    (pc = "decoded" /\ cls = "FMIProbeResult" /\ result.ok) => ProbeConsistent(result.val)

(***************************************************************************)
(* C11: build_fmi_input_envelope returns an envelope with exactly one      *)
(* input file (name "model.fmu", MIME type application/vnd.fmi.fmu, role   *)
(* "fmu", uri the fmu_uri argument), with inputs.output_variables the      *)
(* given list, and with context.callback_url the given URL in its parsed,  *)
(* normalised form.                                                        *)
(***************************************************************************)
C11_BuildPayload ==
    (pc = "built" /\ result.ok) =>
        /\ Len(result.val.f.input_files.l) = 1
        /\ result.val.f.input_files.l[1].f.name = VStr("model.fmu")
        /\ result.val.f.input_files.l[1].f.mime_type
               = VEnum("SupportedMimeType", "application/vnd.fmi.fmu")
        /\ result.val.f.input_files.l[1].f.role = VStr("fmu")
        /\ result.val.f.input_files.l[1].f.uri = doc.f.fmu_uri
        /\ result.val.f.inputs.f.output_variables
               = (IF IsNull(doc.f.output_variables) THEN VList(<<>>) ELSE doc.f.output_variables)
        /\ result.val.f.context.f.callback_url = VUrl(HttpUrlLexicon[doc.f.callback_url.s])

C11_Witness ==
    /\ pc = "built" /\ result.ok
    /\ doc.f.output_variables = VList(<<VStr("y")>>)
    /\ doc.f.callback_url = VStr("https://example.com")
    /\ result.val.f.inputs.f.output_variables = VList(<<VStr("y")>>)

\* C11 as stated: the text of context.callback_url is the text of the given URL
C11_CallbackUrlTextAsGiven ==
    (pc = "built" /\ result.ok) =>
        result.val.f.context.f.callback_url.u = doc.f.callback_url.s

(***************************************************************************)
(* C12: build_fmi_input_envelope fails atomically.  Every call either      *)
(* returns an FMIInputEnvelope that validates as a whole, or raises and    *)
(* returns nothing; it raises whenever the file reference, the inputs, the *)
(* context or the validator type is invalid; the caller's arguments are as *)
(* they were before the call.                                              *)
(***************************************************************************)
C12_BuildIsAtomic ==
    pc = "built" =>
        /\ \A e \in hist : e.val = doc
        /\ result.ok =>
              /\ result.val.t = "inst" /\ result.val.c = "FMIInputEnvelope"
              /\ Validate("FMIInputEnvelope", Serialize(result.val)).ok
        /\ ~result.ok => (result.val = VNull /\ result.errs # {})
        /\ (\/ doc.f.fmu_uri.t # "str"
            \/ doc.f.callback_url.s \notin DOMAIN HttpUrlLexicon
            \/ doc.f.validator.f.validation_type.s \notin ValidatorType
            \/ (~IsNull(doc.f.simulation)
                /\ ~Validate("FMISimulationConfig", doc.f.simulation).ok))
           => ~result.ok

C12_Witness ==
    /\ pc = "built" /\ ~result.ok /\ result.val = VNull
    /\ doc.f.callback_url = VStr("not-a-url")
    /\ doc.f.fmu_uri.t = "str"
    /\ doc.f.validator.f.validation_type = VStr("FMU")
    /\ IsNull(doc.f.simulation)

(***************************************************************************)
(* Vocabulary of the numeric properties.                                   *)
(***************************************************************************)
\* a number in hundredths
NumH(v) == IF v.t = "int" THEN 100 * v.i ELSE v.h

\* v >= 0, v > 0 and v < 0 for a number that may be infinite
NonNegative(v) == v.t = "inf" \/ NumH(v) >= 0

Positive(v) == v.t = "inf" \/ NumH(v) > 0

Negative(v) == ~NonNegative(v)

\* where the family configuration object sits in a document of class c
ConfigSite(c) ==
    CASE c \in {"EnergyPlusInputs", "FMISimulationConfig"} -> <<>>
      [] c = "FMIInputs" -> <<"simulation">>
      [] c = "EnergyPlusInputEnvelope" -> <<"inputs">>
      [] c = "FMIInputEnvelope" -> <<"inputs", "simulation">>

\* the declared range of EnergyPlusInputs.timestep_per_hour
TimestepInRange(cfg) ==
    "timestep_per_hour" \in DOMAIN cfg => NumH(cfg.timestep_per_hour) \in {100 * n : n \in 1..60}

\* the declared ranges of the FMISimulationConfig fields
SimulationInRange(cfg) ==
    /\ "start_time" \in DOMAIN cfg => NonNegative(cfg.start_time)
    /\ "stop_time" \in DOMAIN cfg => Positive(cfg.stop_time)
    /\ "step_size" \in DOMAIN cfg => Positive(cfg.step_size)
    /\ "tolerance" \in DOMAIN cfg => (IsNull(cfg.tolerance) \/ Positive(cfg.tolerance))

\* the configuration of the document is within its declared ranges
ConfigInRange ==
    LET cfg == Get(doc, ConfigSite(cls)).f IN
    IF cls \in {"EnergyPlusInputs", "EnergyPlusInputEnvelope"}
    THEN TimestepInRange(cfg) ELSE SimulationInRange(cfg)

\* the document differs from the well-formed sample only in numbers written
OnlyNumbersWritten == hist # {} /\ \A e \in hist : e.op = "num"

(***************************************************************************)
(* C13: a family configuration, alone or as the inputs of its family       *)
(* envelope, is accepted when its numeric fields are within their declared *)
(* ranges (timestep_per_hour in 1..60; start_time >= 0, stop_time > 0,     *)
(* step_size > 0, tolerance null or > 0) and rejected as a whole when one  *)
(* of them is outside; the fields are given as numbers.                    *)
(***************************************************************************)
C13_ConfigRangesEnforced ==
    (/\ Decoded
     /\ cls \in {"EnergyPlusInputs", "EnergyPlusInputEnvelope",
                 "FMISimulationConfig", "FMIInputs", "FMIInputEnvelope"}
     /\ ConfigSite(cls) \in ObjPaths(doc)
     /\ \A e \in hist : e.op # "type")
    => /\ ~ConfigInRange => (~result.ok /\ result.val = VNull)
       /\ (OnlyNumbersWritten /\ ConfigInRange) => result.ok

C13_Witness ==
    /\ Decoded /\ cls = "FMIInputEnvelope" /\ OnlyNumbersWritten
    /\ Get(doc, ConfigSite(cls)).f.stop_time = VInt(0)
    /\ ~result.ok

\* the classes that carry result fields declared ge=0
ResultClasses ==
    {"EnergyPlusSimulationMetrics", "EnergyPlusOutputs", "EnergyPlusOutputEnvelope",
     "FMIOutputs", "FMIOutputEnvelope"}

\* the <<object path, key>> of the ge=0 result fields the document gives a number
ResultNumbers ==
    {<<tw[1], tw[2]>> : tw \in {x \in AllNumberTweaks(cls) :
        /\ x[2] # "value"
        /\ x[1] \in ObjPaths(doc)
        /\ x[2] \in DOMAIN Get(doc, x[1]).f
        /\ ~IsNull(Get(doc, x[1]).f[x[2]])}}

(***************************************************************************)
(* C14: a result field declared non-negative (execution_seconds,           *)
(* simulation_time_reached, the EnergyPlus metrics) rejects a negative     *)
(* value, and the failure names that field by its path (for an envelope,   *)
(* outputs.execution_seconds); zero is accepted.                           *)
(***************************************************************************)
C14_ResultsNonNegative ==
    (Decoded /\ cls \in ResultClasses) =>
        /\ \A n \in ResultNumbers :
              Negative(Get(doc, n[1]).f[n[2]]) =>
                  /\ ~result.ok
                  /\ <<Append(n[1], n[2]), "greater_than_equal">> \in result.errs
        /\ (/\ OnlyNumbersWritten
            /\ \A e \in hist : e.key # "value"
            /\ \A n \in ResultNumbers : NonNegative(Get(doc, n[1]).f[n[2]]))
              => result.ok

C14_Witness ==
    /\ Decoded /\ cls = "EnergyPlusOutputEnvelope"
    /\ <<"outputs">> \in ObjPaths(doc)
    /\ Get(doc, <<"outputs">>).f.execution_seconds = VInt(-1)
    /\ result.errs = {<<(<<"outputs", "execution_seconds">>), "greater_than_equal">>}

\* how many deliveries of a run's callback the handler processed
ProcessedCount(run) == Cardinality({i \in DOMAIN log : log[i].run_id = run /\ log[i].processed})

\* how many deliveries of a run's callback the handler received
DeliveredCount(run) == Cardinality({i \in DOMAIN log : log[i].run_id = run})

(***************************************************************************)
(* C15: when a job's context carries a callback_id, every callback posted  *)
(* for that job carries the same callback_id, also after encoding and      *)
(* decoding, and however often and in whatever order callbacks are         *)
(* delivered the handler processes that job's completion exactly once.     *)
(***************************************************************************)
C15_CallbackIdEchoedAndDeduplicated ==
    \A j \in jobs :
        ~IsNull(j.context.f.callback_id) =>
            /\ \A m \in wire :
                  m.f.run_id = VStr(j.run_id) =>
                      /\ m.f.callback_id = j.context.f.callback_id
                      /\ Validate("ValidationCallback", m).val.f.callback_id
                             = j.context.f.callback_id
            /\ DeliveredCount(j.run_id) > 0 => ProcessedCount(j.run_id) = 1

C15_Witness ==
    /\ DeliveredCount("run-1") >= 2
    /\ DeliveredCount("run-2") >= 1
    /\ ProcessedCount("run-1") = 1
    /\ log[1].run_id = "run-1" /\ log[2].run_id = "run-2" /\ log[3].run_id = "run-1"

(***************************************************************************)
(* C16: a constructed value is immutable: after an attribute assignment or *)
(* an in-place change of one of its lists it still is the value that was   *)
(* constructed, so it still satisfies its class's constraints.             *)
(***************************************************************************)
C16_ImmutableAfterConstruction ==
    pc = "mutated" =>
        /\ result.val = Validate(cls, doc).val
        /\ Validate(cls, Serialize(result.val)).ok

(***************************************************************************)
(* C17: a valid family configuration (EnergyPlusInputs, FMIInputs with its *)
(* FMISimulationConfig), alone or embedded in its family envelope, decodes *)
(* from its serialised document with the same class to a value equal to    *)
(* the original field for field.                                           *)
(***************************************************************************)
C17_ConfigRoundTrips ==
    (/\ pc = "reloaded"
     /\ cls \in {"EnergyPlusInputs", "FMISimulationConfig", "FMIInputs",
                 "EnergyPlusInputEnvelope", "FMIInputEnvelope"})
    => (rebased.ok /\ rebased.val = result.val)

(***************************************************************************)
(* Vocabulary of C18: the violations a document carries, each by the path  *)
(* of the field it is in, read off the document itself.                    *)
(***************************************************************************)
\* a path inside a map that is open by declaration (dict[str, Any])
InOpenMap(p) ==
    \/ InFMIOpenMap(p)
    \/ (cls \in {"ValidationInputEnvelope", "ValidationOutputEnvelope"} /\ InBaseOpenMap(p))

\* fields that are not in the schema
UnknownViolations ==
    {Append(p, UnknownField) : p \in {q \in UnknownSites(doc) : ~InOpenMap(q)}}

\* the declared range of a numeric field, by its name
OutOfRange(key, v) ==
    CASE v.t \notin {"int", "float", "inf"} -> FALSE
      [] key = "timestep_per_hour" -> NumH(v) \notin {100 * n : n \in 1..60}
      [] key \in {"stop_time", "step_size", "tolerance"} -> ~Positive(v)
      [] key = "value" -> FALSE
      [] OTHER -> Negative(v)

\* numeric fields outside their declared range
RangeViolations ==
    {Append(tw[1], tw[2]) : tw \in {x \in AllNumberTweaks(cls) :
        /\ x[1] \in ObjPaths(doc)
        /\ x[2] \in DOMAIN Get(doc, x[1]).f
        /\ OutOfRange(x[2], Get(doc, x[1]).f[x[2]])}}

\* required fields the document leaves out
MissingViolations ==
    {<<k>> : k \in {f \in DOMAIN Model(cls).fields : Model(cls).fields[f].req} \ DOMAIN doc.f}
    \cup {<<"context", k>> : k \in
            IF /\ "context" \in DOMAIN Model(cls).fields
               /\ <<"context">> \in ObjPaths(doc)
               /\ "execution_bundle_uri" \notin DOMAIN Get(doc, <<"context">>).f
            THEN {"execution_bundle_uri"} ELSE {}}

\* enumerated fields given a value outside the enumeration
EnumViolations ==
    {<<"validator", "type">> : x \in
        IF /\ "validator" \in DOMAIN Model(cls).fields
           /\ <<"validator">> \in ObjPaths(doc)
           /\ "type" \in DOMAIN Get(doc, <<"validator">>).f
           /\ Get(doc, <<"validator">>).f.type.s \notin ValidatorType
        THEN {1} ELSE {}}
    \cup {<<"status">> : x \in
        IF /\ cls \in {"ValidationOutputEnvelope", "EnergyPlusOutputEnvelope",
                       "FMIOutputEnvelope", "ValidationCallback"}
           /\ "status" \in DOMAIN doc.f
           /\ doc.f.status.s \notin ValidationStatus
        THEN {1} ELSE {}}

Violations == UnknownViolations \cup RangeViolations \cup MissingViolations \cup EnumViolations

(***************************************************************************)
(* C18: when a document violates constraints in two or more fields, the    *)
(* one failure reported lists each of them by its field path, and no value *)
(* is produced.                                                            *)
(***************************************************************************)
C18_EveryViolationReported ==
    (Decoded /\ Cardinality(Violations) >= 2) =>
        /\ ~result.ok
        /\ result.val = VNull
        /\ \A v \in Violations : \E e \in result.errs : e[1] = v

\* the words each enumeration field is declared to take, by field name
DeclaredWords(key) ==
    CASE key = "status"   -> {"success", "failed_validation", "failed_runtime", "cancelled"}
      [] key = "severity" -> {"INFO", "WARNING", "ERROR"}
      [] key = "type"     -> {"BASIC", "JSON_SCHEMA", "XML_SCHEMA", "ENERGYPLUS", "FMU",
                              "CUSTOM_VALIDATOR", "AI_ASSIST"}

\* the enumeration fields the document carries: <<object path, key>>
EnumFields ==
    {<<tw[1], tw[2]>> : tw \in {x \in EnumTweaks(cls) :
        x[1] \in ObjPaths(doc) /\ x[2] \in DOMAIN Get(doc, x[1]).f}}

OnlyEnumsWritten == \A e \in hist : e.op = "enum"

C19_WitnessAccepted ==
    /\ Decoded /\ cls = "ValidationMessage"
    /\ OnlyEnumsWritten /\ hist # {}
    /\ doc.f.severity = VStr("WARNING")
    /\ result.ok

\* the one schema_version an envelope class is declared with
VersionOf(c) ==
    IF c \in {"ValidationInputEnvelope", "EnergyPlusInputEnvelope", "FMIInputEnvelope"}
    THEN VStr("validibot.input.v1")
    ELSE VStr("validibot.output.v1")

(***************************************************************************)
(* C20: schema_version is a fixed literal per envelope kind.  An input     *)
(* envelope, base or family, takes only "validibot.input.v1"; an output    *)
(* envelope, base or family, only "validibot.output.v1".  Any other value, *)
(* the other kind's literal included, is rejected with an error at         *)
(* schema_version and no value; the kind's own literal is accepted and     *)
(* kept.                                                                   *)
(***************************************************************************)
C20_SchemaVersionFixed ==
    (/\ Decoded
     /\ cls \in {"ValidationInputEnvelope", "EnergyPlusInputEnvelope", "FMIInputEnvelope",
                 "ValidationOutputEnvelope", "EnergyPlusOutputEnvelope", "FMIOutputEnvelope"}
     /\ "schema_version" \in DOMAIN doc.f)
    => /\ doc.f.schema_version # VersionOf(cls) =>
              /\ ~result.ok
              /\ result.val = VNull
              /\ <<(<<"schema_version">>), "literal_error">> \in result.errs
       /\ (doc.f.schema_version = VersionOf(cls) /\ hist = {}) =>
              /\ result.ok
              /\ result.val.f.schema_version = VersionOf(cls)
       /\ result.ok => result.val.f.schema_version = VersionOf(cls)

C20_Witness ==
    /\ Decoded /\ cls = "FMIOutputEnvelope"
    /\ \A e \in hist : e.op = "version"
    /\ doc.f.schema_version = VStr("validibot.input.v1")
    /\ result.errs = {<<(<<"schema_version">>), "literal_error">>}

\* the caller only left keys of the object at path p out
OnlyDropsAt(p) == \A e \in hist : e.op = "drop" /\ e.at = p

\* every key of a set the document leaves out is reported missing
ReportedMissing(p, keys) ==
    /\ ~result.ok
    /\ result.val = VNull
    /\ \A k \in keys : <<Append(p, k), "missing">> \in result.errs

(***************************************************************************)
(* C21: a ValidationInputEnvelope document that leaves out schema_version, *)
(* inputs, input_files or resource_files gets "validibot.input.v1", an     *)
(* empty map and empty sequences; run_id, validator, org, workflow and     *)
(* context have no default, and leaving any of them out is rejected.       *)
(***************************************************************************)
C21_InputEnvelopeDefaults ==
    (Decoded /\ cls = "ValidationInputEnvelope" /\ OnlyDropsAt(<<>>)) =>
        LET missing == {"run_id", "validator", "org", "workflow", "context"} \ DOMAIN doc.f
            defaults == [schema_version |-> VStr("validibot.input.v1"),
                         inputs         |-> VObj(NoFields),
                         input_files    |-> VList(<<>>),
                         resource_files |-> VList(<<>>)]
        IN  /\ result.ok <=> missing = {}
            /\ missing # {} => ReportedMissing(<<>>, missing)
            /\ result.ok => \A k \in (DOMAIN defaults) \ DOMAIN doc.f :
                                result.val.f[k] = defaults[k]

C21_Witness ==
    /\ Decoded /\ cls = "ValidationInputEnvelope" /\ OnlyDropsAt(<<>>)
    /\ (DOMAIN doc.f) \cap {"schema_version", "inputs"} = {}
    /\ result.ok
    /\ result.val.f.inputs = VObj(NoFields)

(***************************************************************************)
(* C22: a ValidationOutputEnvelope document that leaves out                *)
(* schema_version, messages, metrics, artifacts, raw_outputs or outputs    *)
(* gets "validibot.output.v1", empty sequences and null; run_id,           *)
(* validator, status and timing have no default, and leaving any of them   *)
(* out is rejected.                                                        *)
(***************************************************************************)
C22_OutputEnvelopeDefaults ==
    (Decoded /\ cls = "ValidationOutputEnvelope" /\ OnlyDropsAt(<<>>)) =>
        LET missing == {"run_id", "validator", "status", "timing"} \ DOMAIN doc.f
            defaults == [schema_version |-> VStr("validibot.output.v1"),
                         messages       |-> VList(<<>>),
                         metrics        |-> VList(<<>>),
                         artifacts      |-> VList(<<>>),
                         raw_outputs    |-> VNull,
                         outputs        |-> VNull]
        IN  /\ result.ok <=> missing = {}
            /\ missing # {} => ReportedMissing(<<>>, missing)
            /\ result.ok => \A k \in (DOMAIN defaults) \ DOMAIN doc.f :
                                result.val.f[k] = defaults[k]

C22_Witness ==
    /\ Decoded /\ cls = "ValidationOutputEnvelope" /\ OnlyDropsAt(<<>>)
    /\ (DOMAIN doc.f) \cap {"messages", "outputs"} = {}
    /\ result.ok
    /\ result.val.f.messages = VList(<<>>)
    /\ result.val.f.outputs = VNull

\* where the execution context sits in a document of class c
ContextSite(c) == IF c = "ExecutionContext" THEN <<>> ELSE <<"context">>

(***************************************************************************)
(* C23: ExecutionContext requires execution_bundle_uri and gives every     *)
(* optional field left out its documented default: callback_id null,       *)
(* callback_url null, skip_callback false, timeout_seconds 3600, tags [];  *)
(* the same on its own, inside the base input envelope and inside each     *)
(* family input envelope.                                                  *)
(***************************************************************************)
C23_ContextDefaults ==
    (/\ Decoded
     /\ cls \in {"ExecutionContext", "ValidationInputEnvelope", "EnergyPlusInputEnvelope",
                 "FMIInputEnvelope"}
     /\ OnlyDropsAt(ContextSite(cls)))
    => LET given == Get(doc, ContextSite(cls)).f
           defaults == [callback_id     |-> VNull,
                        callback_url    |-> VNull,
                        skip_callback   |-> VBool(FALSE),
                        timeout_seconds |-> VInt(3600),
                        tags            |-> VList(<<>>)]
       IN  /\ result.ok <=> "execution_bundle_uri" \in DOMAIN given
           /\ "execution_bundle_uri" \notin DOMAIN given =>
                  ReportedMissing(ContextSite(cls), {"execution_bundle_uri"})
           /\ result.ok => \A k \in (DOMAIN defaults) \ DOMAIN given :
                               Get(result.val, ContextSite(cls)).f[k] = defaults[k]

C23_Witness ==
    /\ Decoded /\ cls = "FMIInputEnvelope" /\ OnlyDropsAt(<<"context">>)
    /\ (DOMAIN Get(doc, <<"context">>).f) \cap {"timeout_seconds", "tags"} = {}
    /\ result.ok
    /\ Get(result.val, <<"context">>).f.timeout_seconds = VInt(3600)

\* the caller wrote nothing but fields of one kind
OnlyWritten(kind) == \A e \in hist : e.op = kind

(***************************************************************************)
(* C24: a family configuration constructed with no arguments is            *)
(* EnergyPlusInputs(timestep_per_hour 4, run_period_days null,             *)
(* invocation_mode "cli"), FMIInputs(input_values {}, output_variables [], *)
(* simulation (0.0, 1.0, 0.01, null)); each default satisfies its field's  *)
(* own constraint (the constructed value, encoded, decodes to itself); and *)
(* invocation_mode takes only "cli" and "python_api".                      *)
(***************************************************************************)
C24_ConfigDefaults ==
    LET simulation == VInst("FMISimulationConfig",
                            [start_time |-> VFloat(0), stop_time |-> VFloat(100),
                             step_size |-> VFloat(1), tolerance |-> VNull])
        expected == CASE cls = "EnergyPlusInputs" ->
                             VInst(cls, [timestep_per_hour |-> VInt(4),
                                         run_period_days   |-> VNull,
                                         invocation_mode   |-> VStr("cli")])
                      [] cls = "FMIInputs" ->
                             VInst(cls, [input_values     |-> VObj(NoFields),
                                         simulation       |-> simulation,
                                         output_variables |-> VList(<<>>)])
                      [] cls = "FMISimulationConfig" -> simulation
        site == IF cls = "EnergyPlusInputs" THEN <<>> ELSE <<"inputs">>
    IN  /\ (/\ cls \in {"EnergyPlusInputs", "FMIInputs", "FMISimulationConfig"}
            /\ doc = VObj(NoFields)
            /\ pc \in {"decoded", "reloaded"})
           => /\ result.ok
              /\ result.val = expected
              /\ pc = "reloaded" => (rebased.ok /\ rebased.val = expected)
        /\ (/\ Decoded
            /\ cls \in {"EnergyPlusInputs", "EnergyPlusInputEnvelope"}
            /\ site \in ObjPaths(doc)
            /\ "invocation_mode" \in DOMAIN Get(doc, site).f)
           => LET mode == Get(doc, site).f.invocation_mode
                  declared == mode \in {VStr("cli"), VStr("python_api")}
              IN  /\ ~declared =>
                        /\ ~result.ok
                        /\ result.val = VNull
                        /\ <<Append(site, "invocation_mode"), "literal_error">> \in result.errs
                  /\ (declared /\ OnlyWritten("mode")) =>
                        (result.ok /\ Get(result.val, site).f.invocation_mode = mode)

C24_Witness ==
    /\ pc = "reloaded" /\ cls = "FMIInputs" /\ doc = VObj(NoFields)
    /\ rebased.ok
    /\ rebased.val.f.simulation.f.step_size = VFloat(1)

\* the storage URI fields the document carries: <<object path, key>>
UriFields ==
    {n \in {<<p, k>> : p \in ObjPaths(doc),
                       k \in {"uri", "manifest_uri", "result_uri", "execution_bundle_uri"}} :
        /\ n[2] \in DOMAIN Get(doc, n[1]).f
        /\ n[2] = "uri" <=> (/\ n[1] # <<>>
                             /\ n[1][1] \in {"input_files", "resource_files", "artifacts"})
                            \/ cls \in {"InputFileItem", "ResourceFileItem", "ValidationArtifact"}}

\* where callback_url sits in the document, if it does
UrlFields ==
    {p \in {ContextSite(cls)} :
        /\ cls \in {"ExecutionContext"} \cup InputEnvelopes
        /\ p \in ObjPaths(doc)
        /\ "callback_url" \in DOMAIN Get(doc, p).f}

(***************************************************************************)
(* C25: a storage URI field (execution_bundle_uri, the uri of an input     *)
(* file, a resource file or an artifact, manifest_uri, result_uri) takes   *)
(* any non-empty string, whatever its form, and rejects the empty string;  *)
(* callback_url alone is checked as a URL and rejects a string that is no  *)
(* http(s) URL.                                                            *)
(***************************************************************************)
C25_UrisOpaqueNonEmpty ==
    LET Uri(n) == Get(doc, n[1]).f[n[2]]
        Url(p) == Get(doc, p).f.callback_url
        IsHttpUrl(u) == u.t = "str" /\ u.s \in {"https://example.com/callback",
                                                 "https://example.com", "https://example.com/",
                                                 "http://example.com/callback"}
    IN  Decoded =>
            /\ \A n \in UriFields :
                  Uri(n) = VStr("") =>
                      /\ ~result.ok
                      /\ \E e \in result.errs : e[1] = Append(n[1], n[2])
            /\ \A p \in UrlFields :
                  ~IsHttpUrl(Url(p)) =>
                      /\ ~result.ok
                      /\ \E e \in result.errs : e[1] = Append(p, "callback_url")
            /\ (/\ OnlyWritten("uri")
                /\ \A n \in UriFields : Uri(n).t = "str" /\ Uri(n) # VStr("")
                /\ \A p \in UrlFields : IsHttpUrl(Url(p)))
               => /\ result.ok
                  /\ \A n \in UriFields : Get(result.val, n[1]).f[n[2]] = Uri(n)

\* the type a field is declared with, for the fields written with values of
\* other types
DeclaredType(key) ==
    CASE key \in {"timestep_per_hour", "timeout_seconds"} -> "int"
      [] key = "skip_callback" -> "bool"
      [] key \in {"run_id", "execution_bundle_uri"} -> "str"

\* those fields, where the document carries them: <<object path, key>>
TypedFields ==
    {n \in {<<p, k>> : p \in ObjPaths(doc),
                       k \in {"timestep_per_hour", "timeout_seconds", "skip_callback",
                              "run_id", "execution_bundle_uri"}} :
        /\ n[2] \in DOMAIN Get(doc, n[1]).f
        /\ \E ov \in Overlays(cls) : ov[3] = "type" /\ ov[1] = n[1] /\ n[2] \in DOMAIN ov[2]}

(***************************************************************************)
(* C26: a value of the wrong type is never converted and accepted: the     *)
(* string "4" for the integer timestep_per_hour or timeout_seconds, the    *)
(* string "true" for skip_callback, a number for a string field each cause *)
(* rejection with a violation at that field's path.                        *)
(***************************************************************************)
C26_NoSilentCoercion ==
    Decoded =>
        \A n \in TypedFields :
            Get(doc, n[1]).f[n[2]].t # DeclaredType(n[2]) =>
                /\ ~result.ok
                /\ result.val = VNull
                /\ \E e \in result.errs : e[1] = Append(n[1], n[2])

\* where the timing record sits in a document of class c
TimingSite(c) == IF c = "ValidationTiming" THEN <<>> ELSE <<"timing">>

\* a decoded timestamp is the instant the document gave, or null for null
SameInstant(given, got) ==
    IF IsNull(given) THEN IsNull(got)
    ELSE got.t = "time" /\ TimeText(got.n) = given.s

(***************************************************************************)
(* C27: ValidationTiming enforces no order and no presence: every          *)
(* combination of null and non-null queued_at, started_at and finished_at  *)
(* is accepted and kept, all three null and finished_at before started_at  *)
(* or started_at before queued_at included, under every status of the      *)
(* enclosing output envelope.                                              *)
(***************************************************************************)
C27_TimingUnconstrained ==
    (/\ Decoded
     /\ cls \in {"ValidationTiming", "ValidationOutputEnvelope", "EnergyPlusOutputEnvelope",
                 "FMIOutputEnvelope"}
     /\ OnlyWritten("times"))
    => /\ result.ok
       /\ \A k \in {"queued_at", "started_at", "finished_at"} :
              SameInstant(Get(doc, TimingSite(cls)).f[k], Get(result.val, TimingSite(cls)).f[k])
       /\ cls # "ValidationTiming" => result.val.f.status.s = doc.f.status.s

C27_Witness ==
    /\ Decoded /\ cls = "EnergyPlusOutputEnvelope" /\ OnlyWritten("times") /\ hist # {}
    /\ doc.f.status = VStr("cancelled")
    /\ doc.f.timing.f.queued_at = VNull
    /\ doc.f.timing.f.started_at = VStr("2025-01-01T00:00:10Z")
    /\ doc.f.timing.f.finished_at = VStr("2025-01-01T00:00:00Z")
    /\ result.ok
    /\ result.val.f.timing.f.finished_at.n < result.val.f.timing.f.started_at.n

(***************************************************************************)
(* C28: failure is data, not a schema violation: an output envelope        *)
(* decodes under every status whatever messages, metrics and artifacts     *)
(* hold: failed_validation or failed_runtime with no message, success with *)
(* an ERROR message; nothing ties status to the other fields.              *)
(***************************************************************************)
C28_StatusIndependentOfContents ==
    (/\ Decoded
     /\ cls \in {"ValidationOutputEnvelope", "EnergyPlusOutputEnvelope", "FMIOutputEnvelope"}
     /\ OnlyWritten("report"))
    => /\ result.ok
       /\ result.val.f.status.s = doc.f.status.s
       /\ \A k \in {"messages", "metrics", "artifacts"} :
              Len(result.val.f[k].l) = Len(doc.f[k].l)
       /\ \A i \in DOMAIN doc.f.messages.l :
              result.val.f.messages.l[i].f.severity.s = doc.f.messages.l[i].f.severity.s

C28_Witness ==
    /\ Decoded /\ cls = "ValidationOutputEnvelope" /\ OnlyWritten("report") /\ hist # {}
    /\ doc.f.status = VStr("failed_runtime")
    /\ doc.f.messages = VList(<<>>)
    /\ result.ok

C28_WitnessSuccessWithError ==
    /\ Decoded /\ cls = "FMIOutputEnvelope" /\ OnlyWritten("report") /\ hist # {}
    /\ doc.f.status = VStr("success")
    /\ doc.f.messages = VList(<<SampleMessage>>)
    /\ doc.f.artifacts = VList(<<>>)
    /\ result.ok

C30_NoCrossFieldRelation ==
    (/\ Decoded
     /\ cls \in {"FMISimulationConfig", "FMIInputs", "FMIInputEnvelope"}
     /\ OnlyWritten("window"))
    => LET given == Get(doc, ConfigSite(cls)).f
           got   == Get(result.val, ConfigSite(cls)).f
       IN  /\ result.ok
           /\ \A k \in {"start_time", "stop_time", "step_size"} : NumH(got[k]) = NumH(given[k])

C30_Witness ==
    /\ Decoded /\ cls = "FMIInputEnvelope" /\ OnlyWritten("window") /\ hist # {}
    /\ Get(doc, ConfigSite(cls)).f.start_time = VInt(5)
    /\ Get(doc, ConfigSite(cls)).f.stop_time = VInt(1)
    /\ Get(doc, ConfigSite(cls)).f.step_size = VInt(10)
    /\ result.ok
    /\ NumH(Get(result.val, ConfigSite(cls)).f.stop_time)
           < NumH(Get(result.val, ConfigSite(cls)).f.start_time)

====
